---------------------------- MODULE Spec2Model ----------------------------
(***************************************************************************)
(* The job-results route of pages/api/[...slug].ts: handleJobResults       *)
(* fetches a job's raw result payload from the backend, reshapes it with   *)
(* transformJobResultsForFrontend (per-patient field normalisation,        *)
(* safeParseJSONArray) and derives the dashboard analytics with            *)
(* generateEnhancedPatientAnalytics and extractFailureCauses.              *)
(*                                                                         *)
(* JavaScript values are tagged tuples <<tag, payload>>:                   *)
(*   <<"undefined">>, <<"null">>, <<"NaN">>, <<"Infinity">>,               *)
(*   <<"boolean", b>>,                                                     *)
(*   <<"number", <<n, d>>>>   the rational n/d in lowest terms, d > 0,     *)
(*   <<"string", cs>>         cs the sequence of the string's characters,  *)
(*   <<"array", vs>>          vs the sequence of the elements,             *)
(*   <<"object", r>>          r a record: property name |-> value,         *)
(*   <<"map", f>>             a Record<string, number> built at run time:  *)
(*                            f maps each key (a character sequence) to    *)
(*                            its count; insertion order is not kept.      *)
(* A number is the exact rational of which the IEEE double is the rounding.*)
(***************************************************************************)
EXTENDS Integers, Sequences, FiniteSets, TLC

VARIABLES
    req,      \* the request being served: method, jobId, format
    backend,  \* the backend's answer to the fetch: status and JSON body
    res       \* the response sent: status and JSON body

\* pages/index.tsx, the Home page: its state hooks, the live polling
\* interval, the requests it has in flight and the jobs of the backend
VARIABLES
    selectedCode,       \* '' or the selected procedure code
    comorbidities,      \* the list of comorbidities held
    uploadedFiles,      \* the names of the uploaded files
    columnMetadata,     \* the column configuration, one entry per file
    currentStep,        \* the step the wizard shows
    jobId,              \* 0 (null) or the id of the job being tracked
    jobStatus,          \* the job status shown
    intervalId,         \* 0 or the job whose polling interval is live
    comorbidityFetches, \* GET /api/comorbidities/<code> in flight
    processFetches,     \* POST /api/process-file-enhanced in flight
    statusFetches,      \* GET /api/job-status/<jobId> in flight
    jobs,               \* the backend's status of each job
    stops               \* what has stopped a poller: <<job, reason>>

\* pages/api/[...slug].ts, the upload proxies: one request from its arrival
\* to its response
VARIABLES
    uploadReq,    \* the handler called, the method, the files of the form
    uploadPc,     \* where the handler is
    tmpFiles,     \* the temporary files on disk
    uploadReply,  \* the backend's answer to the forwarded upload
    uploadRes     \* the status of the response sent, 0 before

\* the JobAnalytics page
VARIABLES
    dashboardData,     \* null or the dashboard: overall, recent_jobs
    dashboardLoading,  \* loading
    dashboardError,    \* error
    dialog,            \* window.confirm: the job asked about and the answer
    statsFetches,      \* how many GET /api/dashboard-stats are in flight
    deleteFetches      \* DELETE /api/jobs/<jobId> in flight

\* hooks/useApi.ts: one component using the hook
VARIABLES
    data,      \* null (0) or the result held: the request it came from
    loading,
    error,     \* null (0) or the request whose failure is shown
    mounted,   \* the component is mounted
    requests   \* every apiRequest started: isCancelled of its effect, outcome

routeVars == <<req, backend, res>>
uploadVars == <<uploadReq, uploadPc, tmpFiles, uploadReply, uploadRes>>
dashboardVars ==
    <<dashboardData, dashboardLoading, dashboardError, dialog, statsFetches,
      deleteFetches>>
hookVars == <<data, loading, error, mounted, requests>>
wizardVars ==
    <<selectedCode, comorbidities, uploadedFiles, columnMetadata, currentStep>>
pollerVars == <<jobId, jobStatus, intervalId, statusFetches, jobs, stops>>
pageVars ==
    <<wizardVars, pollerVars, comorbidityFetches, processFetches>>

vars == <<routeVars, pageVars, uploadVars, dashboardVars, hookVars>>

\* what a component leaves alone: the state of the others
notRoute == <<pageVars, uploadVars, dashboardVars, hookVars>>
notPage == <<routeVars, uploadVars, dashboardVars, hookVars>>
notUpload == <<routeVars, pageVars, dashboardVars, hookVars>>
notDashboard == <<routeVars, pageVars, uploadVars, hookVars>>
notHook == <<routeVars, pageVars, uploadVars, dashboardVars>>

---------------------------------------------------------------------------
(* JavaScript values                                                       *)

Undef == <<"undefined">>
Null == <<"null">>
NaN == <<"NaN">>
Infinity == <<"Infinity">>
Bool(b) == <<"boolean", b>>
Str(cs) == <<"string", cs>>
Arr(vs) == <<"array", vs>>
Obj(r) == <<"object", r>>
FreqMap(f) == <<"map", f>>

Tag(x) == x[1]
Val(x) == x[2]

RECURSIVE Gcd(_, _)
Gcd(a, b) == IF b = 0 THEN a ELSE Gcd(b, a % b)

\* the number n/d, d > 0, n >= 0, in lowest terms
Frac(n, d) == LET g == Gcd(n, d) IN <<"number", <<n \div g, d \div g>>>>
Num(n) == <<"number", <<n, 1>>>>

IsNum(x) == Tag(x) = "number"
IsStr(x) == Tag(x) = "string"
IsArr(x) == Tag(x) = "array"
IsObj(x) == Tag(x) = "object"
Numer(x) == Val(x)[1]
Denom(x) == Val(x)[2]

\* ToBoolean: undefined, null, NaN, 0, '' and false are falsy
Truthy(x) ==
    CASE Tag(x) \in {"undefined", "null", "NaN"} -> FALSE
      [] Tag(x) = "boolean" -> Val(x)
      [] Tag(x) = "number" -> Numer(x) # 0
      [] Tag(x) = "string" -> Val(x) # <<>>
      [] OTHER -> TRUE

\* a || b
Or(a, b) == IF Truthy(a) THEN a ELSE b

\* o.k, for o that is not null or undefined: a missing property and a
\* property of a primitive read as undefined
Get(o, k) == IF IsObj(o) /\ k \in DOMAIN Val(o) THEN Val(o)[k] ELSE Undef

\* reading a property of null or undefined throws a TypeError
Nullish(x) == Tag(x) \in {"undefined", "null"}

\* o?.k
GetOpt(o, k) == IF Nullish(o) THEN Undef ELSE Get(o, k)

---------------------------------------------------------------------------
(* Strings                                                                 *)

IsWs(c) == c = " "

RECURSIVE TrimStart(_)
TrimStart(cs) ==
    IF cs # <<>> /\ IsWs(Head(cs)) THEN TrimStart(Tail(cs)) ELSE cs

RECURSIVE TrimEnd(_)
TrimEnd(cs) ==
    IF cs # <<>> /\ IsWs(cs[Len(cs)])
    THEN TrimEnd(SubSeq(cs, 1, Len(cs) - 1))
    ELSE cs

\* String.prototype.trim on the characters
Trim(cs) == TrimEnd(TrimStart(cs))

s_success == <<"s", "u", "c", "c", "e", "s", "s">>
s_failure == <<"f", "a", "i", "l", "u", "r", "e">>
s_unknown == <<"u", "n", "k", "n", "o", "w", "n">>
s_alive == <<"a", "l", "i", "v", "e">>
s_deceased == <<"d", "e", "c", "e", "a", "s", "e", "d">>
s_null == <<"n", "u", "l", "l">>
s_undefined == <<"u", "n", "d", "e", "f", "i", "n", "e", "d">>
s_true == <<"t", "r", "u", "e">>
s_false == <<"f", "a", "l", "s", "e">>


---------------------------------------------------------------------------
(* JSON.parse, on the characters the model's strings are made of: string   *)
(* literals without escapes, unsigned integers, null, true, false and      *)
(* arrays of these.  A parse result is <<ok, value, next position>>.       *)

Digits == <<"0", "1", "2", "3", "4", "5", "6", "7", "8", "9">>
IsDigit(c) == \E k \in 1..10 : Digits[k] = c
DigitVal(c) == (CHOOSE k \in 1..10 : Digits[k] = c) - 1

ParseFail == <<FALSE, Undef, 0>>

RECURSIVE SkipWs(_, _)
SkipWs(cs, i) ==
    IF i <= Len(cs) /\ IsWs(cs[i]) THEN SkipWs(cs, i + 1) ELSE i

\* position of the first c at or after i, Len(cs) + 1 when there is none
RECURSIVE IndexFrom(_, _, _)
IndexFrom(cs, c, i) ==
    IF i > Len(cs) \/ cs[i] = c THEN i ELSE IndexFrom(cs, c, i + 1)

RECURSIVE DigitsEnd(_, _)
DigitsEnd(cs, i) ==
    IF i <= Len(cs) /\ IsDigit(cs[i]) THEN DigitsEnd(cs, i + 1) ELSE i

RECURSIVE Decimal(_)
Decimal(cs) ==
    IF cs = <<>> THEN 0
    ELSE 10 * Decimal(SubSeq(cs, 1, Len(cs) - 1)) + DigitVal(cs[Len(cs)])

StartsAt(cs, i, word) ==
    /\ i + Len(word) - 1 <= Len(cs)
    /\ SubSeq(cs, i, i + Len(word) - 1) = word

ParseStringLit(cs, i) ==
    LET j == IndexFrom(cs, "\"", i + 1)
    IN  IF j > Len(cs) THEN ParseFail
        ELSE <<TRUE, Str(SubSeq(cs, i + 1, j - 1)), j + 1>>

\* a JSON number has no leading zero: "01" is the number 0 followed by "1"
ParseNumberLit(cs, i) ==
    LET j == IF cs[i] = "0" THEN i + 1 ELSE DigitsEnd(cs, i)
    IN  <<TRUE, Num(Decimal(SubSeq(cs, i, j - 1))), j>>

RECURSIVE ParseValue(_, _)
RECURSIVE ParseElements(_, _, _, _)

ParseValue(cs, i) ==
    IF i > Len(cs) THEN ParseFail
    ELSE IF cs[i] = "\"" THEN ParseStringLit(cs, i)
    ELSE IF cs[i] = "[" THEN ParseElements(cs, SkipWs(cs, i + 1), <<>>, TRUE)
    ELSE IF IsDigit(cs[i]) THEN ParseNumberLit(cs, i)
    ELSE IF StartsAt(cs, i, s_null) THEN <<TRUE, Null, i + 4>>
    ELSE IF StartsAt(cs, i, s_true) THEN <<TRUE, Bool(TRUE), i + 4>>
    ELSE IF StartsAt(cs, i, s_false) THEN <<TRUE, Bool(FALSE), i + 5>>
    ELSE ParseFail

ParseElements(cs, i, acc, first) ==
    IF i > Len(cs) THEN ParseFail
    ELSE IF first /\ cs[i] = "]" THEN <<TRUE, Arr(acc), i + 1>>
    ELSE LET r == ParseValue(cs, i)
             j == SkipWs(cs, r[3])
         IN  IF ~r[1] \/ j > Len(cs) THEN ParseFail
             ELSE IF cs[j] = ","
             THEN ParseElements(cs, SkipWs(cs, j + 1), Append(acc, r[2]), FALSE)
             ELSE IF cs[j] = "]" THEN <<TRUE, Arr(Append(acc, r[2])), j + 1>>
             ELSE ParseFail

\* JSON.parse(text): <<TRUE, value>>, or <<FALSE, undefined>> for a SyntaxError
JSONParse(cs) ==
    LET r == ParseValue(cs, SkipWs(cs, 1))
    IN  IF r[1] /\ SkipWs(cs, r[3]) > Len(cs) THEN <<TRUE, r[2]>>
        ELSE <<FALSE, Undef>>

\* cs.split(sep)
RECURSIVE Split(_, _)
Split(cs, sep) ==
    LET j == IndexFrom(cs, sep, 1)
    IN  IF j > Len(cs) THEN <<cs>>
        ELSE <<SubSeq(cs, 1, j - 1)>> \o Split(SubSeq(cs, j + 1, Len(cs)), sep)

\* cs.replace(/["\[\]]/g, '')
RECURSIVE StripQuotesBrackets(_)
StripQuotesBrackets(cs) ==
    IF cs = <<>> THEN <<>>
    ELSE IF Head(cs) \in {"\"", "[", "]"} THEN StripQuotesBrackets(Tail(cs))
    ELSE <<Head(cs)>> \o StripQuotesBrackets(Tail(cs))

Includes(cs, c) == \E k \in 1..Len(cs) : cs[k] = c

\* the pieces cleaned but not filtered: an empty piece stays in the list
RECURSIVE CleanPieces_keepEmpty(_)
CleanPieces_keepEmpty(pieces) ==
    IF pieces = <<>> THEN <<>>
    ELSE <<Str(StripQuotesBrackets(Trim(Head(pieces))))>>
         \o CleanPieces_keepEmpty(Tail(pieces))

\* pieces.map(s => s.trim().replace(...)).filter(s => s), as strings
RECURSIVE CleanPieces(_)
CleanPieces(pieces) ==
    IF pieces = <<>> THEN <<>>
    ELSE LET s == StripQuotesBrackets(Trim(Head(pieces)))
         IN  (IF s # <<>> THEN <<Str(s)>> ELSE <<>>) \o CleanPieces(Tail(pieces))

\* the parse without the test for a list: a list is then wrapped like a
\* decoded scalar, once more at every pass
safeParseJSONArray_rewrapped(jsonString, fallback) ==
    IF IsArr(jsonString) THEN Arr(<<jsonString>>)
    ELSE IF IsStr(jsonString) /\ Trim(Val(jsonString)) # <<>>
    THEN LET parsed == JSONParse(Val(jsonString))
         IN  IF parsed[1]
             THEN (IF IsArr(parsed[2]) THEN parsed[2] ELSE Arr(<<parsed[2]>>))
             ELSE IF Includes(Val(jsonString), ",")
             THEN Arr(CleanPieces(Split(Val(jsonString), ",")))
             ELSE Arr(<<Str(StripQuotesBrackets(Val(jsonString)))>>)
    ELSE fallback

\* the parse without the wrapping of a decoded scalar: '1' then gives the
\* number 1, which is no list
safeParseJSONArray_unwrapped(jsonString, fallback) ==
    IF IsArr(jsonString) THEN jsonString
    ELSE IF IsStr(jsonString) /\ Trim(Val(jsonString)) # <<>>
    THEN LET parsed == JSONParse(Val(jsonString))
         IN  IF parsed[1] THEN parsed[2]
             ELSE IF Includes(Val(jsonString), ",")
             THEN Arr(CleanPieces(Split(Val(jsonString), ",")))
             ELSE Arr(<<Str(StripQuotesBrackets(Val(jsonString)))>>)
    ELSE fallback

safeParseJSONArray(jsonString, fallback) ==
    IF IsArr(jsonString) THEN jsonString
    ELSE IF IsStr(jsonString) /\ Trim(Val(jsonString)) # <<>>
    THEN LET parsed == JSONParse(Val(jsonString))
         IN  IF parsed[1]
             THEN (IF IsArr(parsed[2]) THEN parsed[2] ELSE Arr(<<parsed[2]>>))
             ELSE IF Includes(Val(jsonString), ",")
             THEN Arr(CleanPieces(Split(Val(jsonString), ",")))
             ELSE Arr(<<Str(StripQuotesBrackets(Val(jsonString)))>>)
    ELSE fallback

---------------------------------------------------------------------------
(* Operators of the language the handlers use                              *)

\* typeof x
TypeOf(x) ==
    CASE Tag(x) = "undefined" -> "undefined"
      [] Tag(x) \in {"number", "NaN", "Infinity"} -> "number"
      [] Tag(x) = "string" -> "string"
      [] Tag(x) = "boolean" -> "boolean"
      [] OTHER -> "object"

\* A TypeError, as the value of the expression that throws it.
Throw == <<"throw">>
Threw(x) == Tag(x) = "throw"

\* x.trim() is called: x && x.trim() throws for a truthy x that is no string
\* (x.trim is undefined, and calling it is a TypeError)
TrimThrows(x) == Truthy(x) /\ ~IsStr(x)

\* x && x.trim(), where it does not throw
NonBlank(x) == IsStr(x) /\ Trim(Val(x)) # <<>>

\* String(n) of a non-negative integer
RECURSIVE NatToChars(_)
NatToChars(n) ==
    IF n < 10 THEN <<Digits[n + 1]>>
    ELSE NatToChars(n \div 10) \o <<Digits[(n % 10) + 1]>>

\* ToString of a primitive the model's records hold (integers, strings,
\* booleans)
ToChars(x) ==
    CASE IsStr(x) -> Val(x)
      [] IsNum(x) -> NatToChars(Numer(x))
      [] Tag(x) = "NaN" -> <<"N", "a", "N">>
      [] Tag(x) = "boolean" -> IF Val(x) THEN s_true ELSE s_false
      [] Tag(x) = "null" -> s_null
      [] OTHER -> s_undefined

AllDigits(cs) == \A k \in 1..Len(cs) : IsDigit(cs[k])

\* ToNumber: a string of digits (blank: 0) is its value, any other string of
\* the model's alphabet is NaN
ToNumber(x) ==
    CASE Tag(x) \in {"number", "NaN", "Infinity"} -> x
      [] Tag(x) = "string" ->
            IF Trim(Val(x)) = <<>> THEN Num(0)
            ELSE IF AllDigits(Trim(Val(x))) THEN Num(Decimal(Trim(Val(x))))
            ELSE NaN
      [] Tag(x) = "boolean" -> IF Val(x) THEN Num(1) ELSE Num(0)
      [] Tag(x) = "null" -> Num(0)
      [] OTHER -> NaN

\* a + b: concatenation as soon as one side is a string
JSAdd(a, b) ==
    IF IsStr(a) \/ IsStr(b) THEN Str(ToChars(a) \o ToChars(b))
    ELSE LET x == ToNumber(a)
             y == ToNumber(b)
         IN  IF IsNum(x) /\ IsNum(y)
             THEN Frac(Numer(x) * Denom(y) + Numer(y) * Denom(x),
                       Denom(x) * Denom(y))
             ELSE NaN

\* a / n for a count n >= 0: 0/0 is NaN, x/0 is Infinity
JSDiv(a, n) ==
    LET x == ToNumber(a)
    IN  IF ~IsNum(x) THEN x
        ELSE IF n = 0 THEN (IF Numer(x) = 0 THEN NaN ELSE Infinity)
        ELSE Frac(Numer(x), Denom(x) * n)

\* a >= n for an integer n: false when a is NaN
JSGe(a, n) ==
    LET x == ToNumber(a)
    IN  \/ Tag(x) = "Infinity"
        \/ IsNum(x) /\ Numer(x) >= n * Denom(x)

\* (a / b) * 100 for counts a and b > 0
Percent(a, b) == Frac(a * 100, b)

\* x > n for a number x
NumGt(x, n) == Numer(x) > n * Denom(x)

CountIf(seq, P(_)) == Cardinality({i \in DOMAIN seq : P(seq[i])})

EmptyMap == [k \in {} |-> Num(0)]

\* counts[key] = (counts[key] || 0) + 1
Inc(counts, key) ==
    IF key \in DOMAIN counts
    THEN [counts EXCEPT ![key] = Num(Numer(@) + 1)]
    ELSE (key :> Num(1)) @@ counts

\* keys.forEach(k => counts[k] = (counts[k] || 0) + 1)
RECURSIVE CountKeys(_, _)
CountKeys(counts, keys) ==
    IF keys = <<>> THEN counts
    ELSE CountKeys(Inc(counts, Head(keys)), Tail(keys))

---------------------------------------------------------------------------
(* extractFailureCauses                                                    *)

isFailed(p) == Get(p, "surgery_outcome") = Str(s_failure)
isSuccess(p) == Get(p, "surgery_outcome") = Str(s_success)
isDeceased(p) == Get(p, "mortality_status") = Str(s_deceased)

\* the causes of one patient that are counted, trimmed
RECURSIVE cleanFailureCauses(_)
cleanFailureCauses(causes) ==
    IF causes = <<>> THEN <<>>
    ELSE LET cause == Head(causes)
             cleanCause == Trim(Val(cause))
         IN  (IF /\ Truthy(cause) /\ IsStr(cause) /\ cleanCause # <<>>
                 /\ cleanCause # s_null /\ cleanCause # s_undefined
              THEN <<cleanCause>> ELSE <<>>)
             \o cleanFailureCauses(Tail(causes))

\* patient.failure_causes, wrapped in a list when it is not one
failureCauseList(p) ==
    LET fc == Get(p, "failure_causes")
    IN  IF IsArr(fc) THEN Val(fc) ELSE <<fc>>

\* the causes of every patient, whatever the surgery outcome
RECURSIVE allFailureCauses_everyone(_)
allFailureCauses_everyone(patients) ==
    IF patients = <<>> THEN <<>>
    ELSE LET p == Head(patients)
         IN  (IF Truthy(Get(p, "failure_causes"))
              THEN cleanFailureCauses(failureCauseList(p)) ELSE <<>>)
             \o allFailureCauses_everyone(Tail(patients))

RECURSIVE allFailureCauses(_)
allFailureCauses(patients) ==
    IF patients = <<>> THEN <<>>
    ELSE LET p == Head(patients)
         IN  (IF isFailed(p) /\ Truthy(Get(p, "failure_causes"))
              THEN cleanFailureCauses(failureCauseList(p)) ELSE <<>>)
             \o allFailureCauses(Tail(patients))

extractFailureCauses(patientSummaries) ==
    FreqMap(CountKeys(EmptyMap, allFailureCauses(Val(patientSummaries))))

---------------------------------------------------------------------------
(* generateEnhancedPatientAnalytics                                        *)

emptyAnalytics ==
    Obj([total_patients |-> Num(0),
         avg_comorbidities_per_patient |-> Num(0),
         most_common_comorbidities |-> FreqMap(EmptyMap),
         most_effective_columns |-> FreqMap(EmptyMap),
         surgery_outcomes |->
            Obj([successful |-> Num(0), failed |-> Num(0),
                 unknown |-> Num(0), success_rate |-> Num(0)]),
         mortality_analytics |->
            Obj([deceased_patients |-> Num(0), alive_patients |-> Num(0),
                 mortality_rate |-> Num(0),
                 mortality_causes |-> FreqMap(EmptyMap),
                 failed_surgery_deaths |-> Num(0),
                 success_surgery_deaths |-> Num(0),
                 death_rate_in_failed |-> Num(0),
                 death_rate_in_successful |-> Num(0),
                 high_risk_comorbidities |-> FreqMap(EmptyMap),
                 risk_distribution |->
                    Obj([Critical |-> Num(0), High |-> Num(0),
                         Medium |-> Num(0), Low |-> Num(0)])]),
         failure_causes |-> FreqMap(EmptyMap)])

isUnknown(p) ==
    \/ Get(p, "surgery_outcome") = Str(s_unknown)
    \/ ~Truthy(Get(p, "surgery_outcome"))

isAlive(p) ==
    \/ Get(p, "mortality_status") = Str(s_alive)
    \/ ~Truthy(Get(p, "mortality_status"))

\* the rate without its guard: 0 / 0 is NaN
guardedRate_unguarded(part, whole) ==
    IF whole = 0 THEN NaN ELSE Percent(part, whole)

\* whole > 0 ? (part / whole) * 100 : 0
guardedRate(part, whole) == IF whole > 0 THEN Percent(part, whole) ELSE Num(0)

\* the rate of calculateSuccessRate, over the decided surgeries only: the
\* unknown outcomes are then left out of the denominator
surgeryOutcomeCounts_decided(patients) ==
    LET successful == CountIf(patients, isSuccess)
        failed == CountIf(patients, isFailed)
    IN  Obj([successful |-> Num(successful),
             failed |-> Num(failed),
             unknown |-> Num(CountIf(patients, isUnknown)),
             success_rate |-> guardedRate(successful, successful + failed)])

\* successful, failed, unknown, success_rate
surgeryOutcomeCounts(patients) ==
    LET totalPatients == Len(patients)
        successful == CountIf(patients, isSuccess)
    IN  Obj([successful |-> Num(successful),
             failed |-> Num(CountIf(patients, isFailed)),
             unknown |-> Num(CountIf(patients, isUnknown)),
             success_rate |-> guardedRate(successful, totalPatients)])

\* if (cause && cause.trim() && cause !== 'null') push(cause.trim())
RECURSIVE cleanMortalityCauses(_)
cleanMortalityCauses(causes) ==
    IF causes = <<>> THEN <<>>
    ELSE LET cause == Head(causes)
         IN  (IF NonBlank(cause) /\ cause # Str(s_null)
              THEN <<Trim(Val(cause))>> ELSE <<>>)
             \o cleanMortalityCauses(Tail(causes))

hasCauseList(p) ==
    Truthy(Get(p, "mortality_causes")) /\ IsArr(Get(p, "mortality_causes"))

\* the causes of every patient, deceased or not
RECURSIVE allMortalityCauses_everyone(_)
allMortalityCauses_everyone(patients) ==
    IF patients = <<>> THEN <<>>
    ELSE (IF hasCauseList(Head(patients))
          THEN cleanMortalityCauses(Val(Get(Head(patients), "mortality_causes")))
          ELSE <<>>)
         \o allMortalityCauses_everyone(Tail(patients))

\* the loop left at the first patient that is not deceased, where the code
\* goes on to the next patient
RECURSIVE allMortalityCauses_untilAlive(_)
allMortalityCauses_untilAlive(patients) ==
    IF patients = <<>> \/ ~isDeceased(Head(patients)) THEN <<>>
    ELSE (IF hasCauseList(Head(patients))
          THEN cleanMortalityCauses(Val(Get(Head(patients), "mortality_causes")))
          ELSE <<>>)
         \o allMortalityCauses_untilAlive(Tail(patients))

RECURSIVE allMortalityCauses(_)
allMortalityCauses(patients) ==
    IF patients = <<>> THEN <<>>
    ELSE LET p == Head(patients)
         IN  (IF isDeceased(p) /\ hasCauseList(p)
              THEN cleanMortalityCauses(Val(Get(p, "mortality_causes")))
              ELSE <<>>)
             \o allMortalityCauses(Tail(patients))

\* cause.trim() throws on a truthy cause that is no string
mortalityCausesThrow(patients) ==
    \E i \in DOMAIN patients :
        /\ isDeceased(patients[i])
        /\ hasCauseList(patients[i])
        /\ LET causes == Val(Get(patients[i], "mortality_causes"))
           IN  \E j \in DOMAIN causes : TrimThrows(causes[j])

\* the name a primary concern carries: the string itself, or the comorbidity
\* field of an object
comorbidityNameOf(concern) ==
    IF TypeOf(concern) = "string" THEN concern
    ELSE IF /\ Truthy(concern) /\ TypeOf(concern) = "object"
            /\ Truthy(Get(concern, "comorbidity"))
    THEN Get(concern, "comorbidity")
    ELSE Str(<<>>)

hasConcernList(p) ==
    Truthy(Get(p, "primary_concerns")) /\ IsArr(Get(p, "primary_concerns"))

RECURSIVE cleanConcernNames(_)
cleanConcernNames(concerns) ==
    IF concerns = <<>> THEN <<>>
    ELSE LET comorbidityName == comorbidityNameOf(Head(concerns))
         IN  (IF NonBlank(comorbidityName)
              THEN <<Trim(Val(comorbidityName))>> ELSE <<>>)
             \o cleanConcernNames(Tail(concerns))

RECURSIVE allConcernNames(_)
allConcernNames(patients) ==
    IF patients = <<>> THEN <<>>
    ELSE LET p == Head(patients)
         IN  (IF hasConcernList(p)
              THEN cleanConcernNames(Val(Get(p, "primary_concerns")))
              ELSE <<>>)
             \o allConcernNames(Tail(patients))

concernsThrow(patients) ==
    \E i \in DOMAIN patients :
        /\ hasConcernList(patients[i])
        /\ LET concerns == Val(Get(patients[i], "primary_concerns"))
           IN  \E j \in DOMAIN concerns :
                   TrimThrows(comorbidityNameOf(concerns[j]))

\* matches.length > 0: a list or a string has a length
hasLength(matches) ==
    (IsArr(matches) \/ IsStr(matches)) /\ Len(Val(matches)) > 0

\* the names counted after trimming, as the primary concerns are
RECURSIVE matchNames_trimmed(_, _)
matchNames_trimmed(matchList, field) ==
    IF matchList = <<>> THEN <<>>
    ELSE (IF NonBlank(Get(Head(matchList), field))
          THEN <<Trim(Val(Get(Head(matchList), field)))>> ELSE <<>>)
         \o matchNames_trimmed(Tail(matchList), field)

\* matches.forEach(match => { name = match[field];
\*   if (name && name.trim()) counts[name]++ }): the names counted, untrimmed
RECURSIVE matchNames(_, _)
matchNames(matchList, field) ==
    IF matchList = <<>> THEN <<>>
    ELSE (IF NonBlank(Get(Head(matchList), field))
          THEN <<Val(Get(Head(matchList), field))>> ELSE <<>>)
         \o matchNames(Tail(matchList), field)

\* only a list has forEach; match[field] throws on a null match, and
\* name.trim() on a truthy name that is no string
matchesThrow(matches, field) ==
    \/ ~IsArr(matches)
    \/ \E i \in DOMAIN Val(matches) :
          \/ Nullish(Val(matches)[i])
          \/ TrimThrows(Get(Val(matches)[i], field))

\* the match records counted on top of the primary concerns, not instead
comorbidityCountsOf_merged(patients, matches) ==
    LET fromConcerns == CountKeys(EmptyMap, allConcernNames(patients))
    IN  IF hasLength(matches)
        THEN CountKeys(fromConcerns, matchNames(Val(matches), "comorbidity_name"))
        ELSE fromConcerns

\* most_common_comorbidities: from the primary concerns, and from the match
\* records when those give no key and there are matches
comorbidityCountsOf(patients, matches) ==
    LET fromConcerns == CountKeys(EmptyMap, allConcernNames(patients))
    IN  IF DOMAIN fromConcerns = {} /\ hasLength(matches)
        THEN CountKeys(EmptyMap, matchNames(Val(matches), "comorbidity_name"))
        ELSE fromConcerns

\* p.primary_concerns && p.primary_concerns.includes(comorbidity)
hasComorbidity(p, comorbidity) ==
    /\ Truthy(Get(p, "primary_concerns"))
    /\ LET concerns == Val(Get(p, "primary_concerns"))
       IN  \E j \in DOMAIN concerns : concerns[j] = Str(comorbidity)

patientsWithComorbidity(patients, comorbidity) ==
    {i \in DOMAIN patients : hasComorbidity(patients[i], comorbidity)}

deceasedWithComorbidity(patients, comorbidity) ==
    {i \in patientsWithComorbidity(patients, comorbidity) :
        isDeceased(patients[i])}

mortalityRateOf(patients, comorbidity) ==
    Percent(Cardinality(deceasedWithComorbidity(patients, comorbidity)),
            Cardinality(patientsWithComorbidity(patients, comorbidity)))

\* the policy threshold: a mortality rate above it is high risk
HighRiskThreshold == 20

isHighRisk(patients, comorbidity) ==
    /\ patientsWithComorbidity(patients, comorbidity) # {}
    /\ NumGt(mortalityRateOf(patients, comorbidity), HighRiskThreshold)

highRiskComorbiditiesOf(patients, comorbidityCounts) ==
    [comorbidity \in {c \in DOMAIN comorbidityCounts : isHighRisk(patients, c)}
        |-> mortalityRateOf(patients, comorbidity)]

\* the chain with its first two branches exchanged: a deceased patient of a
\* failed surgery is then High, never Critical
riskLevel_HighFirst(patient) ==
    LET comorbidityCount == Or(Get(patient, "total_comorbidities"), Num(0))
    IN  IF \/ isDeceased(patient)
           \/ isFailed(patient) /\ JSGe(comorbidityCount, 3)
        THEN "High"
        ELSE IF isDeceased(patient) /\ isFailed(patient) THEN "Critical"
        ELSE IF isFailed(patient) \/ JSGe(comorbidityCount, 2) THEN "Medium"
        ELSE "Low"

\* the first branch of the if / else-if chain that matches
riskLevel(patient) ==
    LET comorbidityCount == Or(Get(patient, "total_comorbidities"), Num(0))
    IN  IF isDeceased(patient) /\ isFailed(patient) THEN "Critical"
        ELSE IF \/ isDeceased(patient)
                \/ isFailed(patient) /\ JSGe(comorbidityCount, 3)
        THEN "High"
        ELSE IF isFailed(patient) \/ JSGe(comorbidityCount, 2) THEN "Medium"
        ELSE "Low"

riskCount(patients, level) ==
    Num(Cardinality({i \in DOMAIN patients : riskLevel(patients[i]) = level}))

\* patientSummaries.reduce((sum, p) => sum + (p.total_comorbidities || 0), 0)
RECURSIVE sumComorbidities(_, _)
sumComorbidities(sum, patients) ==
    IF patients = <<>> THEN sum
    ELSE sumComorbidities(
            JSAdd(sum, Or(Get(Head(patients), "total_comorbidities"), Num(0))),
            Tail(patients))

mortalityAnalyticsOf(patients, comorbidityCounts) ==
    LET totalPatients == Len(patients)
        deceased == CountIf(patients, isDeceased)
        failedSurgeryDeaths ==
            CountIf(patients, LAMBDA p : isDeceased(p) /\ isFailed(p))
        successSurgeryDeaths ==
            CountIf(patients, LAMBDA p : isDeceased(p) /\ isSuccess(p))
    IN  Obj([deceased_patients |-> Num(deceased),
             alive_patients |-> Num(CountIf(patients, isAlive)),
             mortality_rate |-> guardedRate(deceased, totalPatients),
             mortality_causes |->
                FreqMap(CountKeys(EmptyMap, allMortalityCauses(patients))),
             failed_surgery_deaths |-> Num(failedSurgeryDeaths),
             success_surgery_deaths |-> Num(successSurgeryDeaths),
             death_rate_in_failed |->
                guardedRate(failedSurgeryDeaths, CountIf(patients, isFailed)),
             death_rate_in_successful |->
                guardedRate(successSurgeryDeaths, CountIf(patients, isSuccess)),
             high_risk_comorbidities |->
                FreqMap(highRiskComorbiditiesOf(patients, comorbidityCounts)),
             risk_distribution |->
                Obj([Critical |-> riskCount(patients, "Critical"),
                     High |-> riskCount(patients, "High"),
                     Medium |-> riskCount(patients, "Medium"),
                     Low |-> riskCount(patients, "Low")])])

\* the TypeErrors the aggregation can raise
analyticsThrow(patients, matches) ==
    \/ mortalityCausesThrow(patients)
    \/ concernsThrow(patients)
    \/ /\ allConcernNames(patients) = <<>>
       /\ hasLength(matches)
       /\ matchesThrow(matches, "comorbidity_name")
    \/ matchesThrow(matches, "column_name")

\* the aggregation without its early return for an empty list: the average is
\* then 0 / 0 and the match records are counted
generateEnhancedPatientAnalytics_noEarlyReturn(patientSummaries, stats, matches, existingAnalytics) ==
    LET patients == Val(patientSummaries)
        comorbidityCounts == comorbidityCountsOf(patients, matches)
    IN  IF analyticsThrow(patients, matches) THEN Throw
        ELSE Obj([total_patients |-> Num(Len(patients)),
                  avg_comorbidities_per_patient |->
                     JSDiv(sumComorbidities(Num(0), patients), Len(patients)),
                  most_common_comorbidities |-> FreqMap(comorbidityCounts),
                  most_effective_columns |->
                     FreqMap(CountKeys(EmptyMap,
                                       matchNames(Val(matches), "column_name"))),
                  surgery_outcomes |-> surgeryOutcomeCounts(patients),
                  mortality_analytics |->
                     mortalityAnalyticsOf(patients, comorbidityCounts),
                  failure_causes |-> extractFailureCauses(patientSummaries)])

\* patientSummaries is a list: the summaries the transformation built, or []
generateEnhancedPatientAnalytics(patientSummaries, stats, matches, existingAnalytics) ==
    LET patients == Val(patientSummaries)
        comorbidityCounts == comorbidityCountsOf(patients, matches)
    IN  IF ~Truthy(patientSummaries) \/ Len(patients) = 0 THEN emptyAnalytics
        ELSE IF analyticsThrow(patients, matches) THEN Throw
        ELSE Obj([total_patients |-> Num(Len(patients)),
                  avg_comorbidities_per_patient |->
                     JSDiv(sumComorbidities(Num(0), patients), Len(patients)),
                  most_common_comorbidities |-> FreqMap(comorbidityCounts),
                  most_effective_columns |->
                     FreqMap(CountKeys(EmptyMap,
                                       matchNames(Val(matches), "column_name"))),
                  surgery_outcomes |-> surgeryOutcomeCounts(patients),
                  mortality_analytics |->
                     mortalityAnalyticsOf(patients, comorbidityCounts),
                  failure_causes |-> extractFailureCauses(patientSummaries)])

---------------------------------------------------------------------------
(* transformJobResultsForFrontend                                          *)

\* the defect the code's comment warns of: a missing outcome read as a success
normalizeSurgeryOutcome_success(raw) ==
    IF ~Truthy(raw) \/ raw = Str(<<>>) THEN Str(s_success) ELSE raw

\* let surgeryOutcome = patient.surgery_outcome;
\* if (!surgeryOutcome || surgeryOutcome === '') surgeryOutcome = 'unknown'
normalizeSurgeryOutcome(raw) ==
    IF ~Truthy(raw) \/ raw = Str(<<>>) THEN Str(s_unknown) ELSE raw

\* a status read as the enum: whatever is not 'deceased' becomes 'alive'
normalizeMortalityStatus_enum(raw) ==
    IF raw = Str(s_deceased) THEN raw ELSE Str(s_alive)

\* let mortalityStatus = patient.mortality_status;
\* if (!mortalityStatus || mortalityStatus === '') mortalityStatus = 'alive'
normalizeMortalityStatus(raw) ==
    IF ~Truthy(raw) \/ raw = Str(<<>>) THEN Str(s_alive) ELSE raw

\* the callback of patient_summaries.map, for a patient that is not null
patientSummary(patient) ==
    Obj([patient_id |-> Get(patient, "patient_id"),
         total_comorbidities |-> Or(Get(patient, "total_comorbidities"), Num(0)),
         highest_confidence |-> Or(Get(patient, "highest_confidence"), Num(0)),
         comorbidity_summary |->
            Or(Get(patient, "comorbidity_summary"), Str(<<>>)),
         surgery_outcome |->
            normalizeSurgeryOutcome(Get(patient, "surgery_outcome")),
         failure_causes |->
            safeParseJSONArray(Get(patient, "failure_causes"), Arr(<<>>)),
         primary_concerns |->
            safeParseJSONArray(Get(patient, "primary_concerns"), Arr(<<>>)),
         comprehensive_summary |->
            Or(Get(patient, "comprehensive_summary"), Str(<<>>)),
         columns_analyzed |-> Or(Get(patient, "columns_analyzed"), Num(0)),
         mortality_status |->
            normalizeMortalityStatus(Get(patient, "mortality_status")),
         mortality_confidence |->
            Or(Get(patient, "mortality_confidence"), Num(0)),
         mortality_causes |->
            safeParseJSONArray(Get(patient, "mortality_causes"), Arr(<<>>)),
         time_of_death |-> Or(Get(patient, "time_of_death"), Null)])

\* backendData.patient_summaries.map(...) throws when patient_summaries has
\* no map method (it is not a list) and when a patient is null or undefined
summariesThrow(rawSummaries) ==
    \/ ~IsArr(rawSummaries)
    \/ \E i \in DOMAIN Val(rawSummaries) : Nullish(Val(rawSummaries)[i])

RECURSIVE mapPatients(_)
mapPatients(rawPatients) ==
    IF rawPatients = <<>> THEN <<>>
    ELSE <<patientSummary(Head(rawPatients))>> \o mapPatients(Tail(rawPatients))

mapSummaries(rawSummaries) == Arr(mapPatients(Val(rawSummaries)))

transformedStats(backendData) ==
    LET stats == Get(backendData, "stats")
    IN  Obj([rows_processed |-> Or(GetOpt(stats, "rows_processed"), Num(0)),
             matches_found |-> Or(GetOpt(stats, "matches_found"), Num(0)),
             processing_time |-> Or(GetOpt(stats, "processing_time"), Num(0)),
             successful_surgeries |->
                Or(GetOpt(stats, "successful_surgeries"), Num(0)),
             failed_surgeries |-> Or(GetOpt(stats, "failed_surgeries"), Num(0)),
             output_file_path |-> Or(GetOpt(stats, "output_file_path"), Null)])

transformedSummary(backendData) ==
    LET summary == Get(backendData, "summary")
    IN  Obj([matches_by_comorbidity |->
                Or(GetOpt(summary, "matches_by_comorbidity"), FreqMap(EmptyMap)),
             matches_by_column |->
                Or(GetOpt(summary, "matches_by_column"), FreqMap(EmptyMap))])

\* the body of the try block: the transformed data, or the error thrown
tryTransform(backendData, format) ==
    LET rawSummaries == Get(backendData, "patient_summaries")
        matches == Or(Get(backendData, "matches"), Arr(<<>>))
        base == [stats |-> transformedStats(backendData),
                 matches |-> matches,
                 summary |-> transformedSummary(backendData)]
        withSummaries ==
            IF Truthy(rawSummaries)
            THEN base @@ [patient_summaries |-> mapSummaries(rawSummaries)]
            ELSE base
        analytics ==
            generateEnhancedPatientAnalytics(
                IF Truthy(rawSummaries) THEN withSummaries.patient_summaries
                ELSE Arr(<<>>),
                base.stats, matches, Get(backendData, "patient_analytics"))
    IN  IF Nullish(backendData) THEN Throw
        ELSE IF Truthy(rawSummaries) /\ summariesThrow(rawSummaries) THEN Throw
        ELSE IF format = "enhanced" \/ Truthy(rawSummaries)
        THEN (IF Threw(analytics) THEN Throw
              ELSE Obj(withSummaries @@ [patient_analytics |-> analytics]))
        ELSE Obj(withSummaries)

\* catch (error) { return backendData; }
transformJobResultsForFrontend(backendData, format) ==
    LET transformedData == tryTransform(backendData, format)
    IN  IF Threw(transformedData) THEN backendData ELSE transformedData

---------------------------------------------------------------------------
(* The payloads the backend may answer with                                *)

MaxPatients == 2

s_partial == <<"p", "a", "r", "t", "i", "a", "l">>
s_DM == <<"D", "M">>
s_HTN == <<"H", "T", "N">>
s_MI == <<"M", "I">>
s_notes == <<"n", "o", "t", "e", "s">>
Padded(cs) == <<" ">> \o cs \o <<" ">>
\* the JSON text of a one-element list holding the string cs
JsonListOf(cs) == <<"[", "\"">> \o cs \o <<"\"", "]">>

RawPatient(so, ms, tc, pc, mc, fc) ==
    Obj([patient_id |-> Num(1), surgery_outcome |-> so, mortality_status |-> ms,
         total_comorbidities |-> tc, primary_concerns |-> pc,
         mortality_causes |-> mc, failure_causes |-> fc])

\* every outcome with every mortality status and comorbidity count
CorePatients ==
    {RawPatient(Str(so), Str(ms), tc, Undef, Undef, Undef) :
        so \in {s_success, s_failure, s_unknown},
        ms \in {s_alive, s_deceased},
        tc \in {Undef, Num(2), Num(3)}}

\* the raw forms of the two enum fields and of the count
RawFormPatients ==
    {RawPatient(so, Str(s_alive), Undef, Undef, Undef, Undef) :
        so \in {Undef, Null, Str(<<>>), Str(s_partial)}}
    \cup {RawPatient(Str(s_success), ms, Undef, Undef, Undef, Undef) :
        ms \in {Undef, Null, Str(<<>>), Str(s_unknown)}}
    \cup {RawPatient(Str(s_failure), Str(s_alive), tc, Undef, Undef, Undef) :
        tc \in {Str(<<"3">>), Str(<<"n", "/", "a">>)}}

ConcernLists ==
    {Arr(<<Str(s_DM)>>), Arr(<<Str(Padded(s_DM))>>),
     Arr(<<Obj([comorbidity |-> Str(s_DM)])>>), Arr(<<Str(s_null)>>),
     Arr(<<Obj([comorbidity |-> Num(5)])>>), Str(JsonListOf(s_HTN))}

CauseLists ==
    {Arr(<<Str(s_MI)>>), Arr(<<Str(Padded(s_null))>>),
     Arr(<<Str(s_undefined)>>), Arr(<<Num(5)>>), Str(JsonListOf(s_MI))}

\* patients with lists of concerns and of causes, beside two without
ListPatients ==
    {RawPatient(Str(s_success), Str(s_deceased), Undef, pc, Undef, Undef) :
        pc \in ConcernLists}
    \cup {RawPatient(Str(s_success), Str(s_alive), Undef, pc, Undef, Undef) :
        pc \in {Arr(<<Str(s_DM)>>), Arr(<<Str(Padded(s_DM))>>)}}
    \cup {RawPatient(Str(s_unknown), Str(s_deceased), Undef, Undef, mc, Undef) :
        mc \in CauseLists}
    \cup {RawPatient(Str(s_failure), Str(s_alive), Undef, Undef, Undef, fc) :
        fc \in CauseLists}
    \cup {RawPatient(Str(s_success), Str(s_alive), Undef, Undef,
                     Arr(<<Str(s_MI)>>), Arr(<<Str(s_MI)>>)),
          RawPatient(Str(s_failure), Str(s_deceased), Num(3),
                     Undef, Undef, Undef),
          RawPatient(Str(s_success), Str(s_alive), Undef, Undef, Undef, Undef)}

OutcomePatients == CorePatients \cup RawFormPatients

\* the list of the values f[1], ..., f[n]
RECURSIVE AsList(_, _)
AsList(f, n) == IF n = 0 THEN <<>> ELSE Append(AsList(f, n - 1), f[n])

Match(name, column) ==
    Obj([comorbidity_name |-> name, column_name |-> column])

MatchLists ==
    {Arr(<<>>), Arr(<<Match(Str(s_DM), Str(s_notes))>>),
     Arr(<<Match(Str(s_null), Str(s_undefined))>>),
     Arr(<<Match(Str(Padded(s_HTN)), Str(Padded(s_notes))),
           Match(Str(s_HTN), Str(s_notes))>>),
     Arr(<<Match(Num(5), Str(s_notes))>>), Arr(<<Null>>), Str(s_notes)}

\* a payload with a list of patients and no matches
PatientPayload(ps) == Obj([patient_summaries |-> Arr(ps)])

\* payloads with match records, for no patient and for one
MatchPayloads ==
    {Obj([patient_summaries |-> Arr(ps), matches |-> ms]) :
        ps \in {<<>>} \cup {<<p>> : p \in ListPatients}, ms \in MatchLists}

\* payloads that are no object, or carry no list of patients
OddPayloads ==
    {Null, Num(7), Str(s_null), Arr(<<>>), Obj([stats |-> Null]),
     Obj([stats |-> Obj([rows_processed |-> Num(4)]),
          matches |-> Arr(<<Match(Str(s_DM), Str(s_notes))>>)]),
     Obj([patient_summaries |-> Str(s_DM)]),
     Obj([patient_summaries |-> Obj([a |-> Num(1)])]),
     Obj([patient_summaries |-> Arr(<<Null>>)]),
     Obj([patient_summaries |-> Arr(<<Num(3)>>)]),
     Obj([patient_summaries |-> Null, matches |-> Str(s_notes)])}

\* the documented scenario: 10 patients, 6 success, 3 failure, 1 unknown
ScenarioPatients ==
    [i \in 1..10 |->
        RawPatient(Str(IF i <= 6 THEN s_success
                       ELSE IF i <= 9 THEN s_failure ELSE s_unknown),
                   Str(s_alive), Undef, Undef, Undef, Undef)]

\* the raw forms of a list field: every string of up to MaxLen characters of
\* ListAlphabet, the documented examples, and values that are no string
MaxLen == 3
ListAlphabet == {"a", ",", " ", "\"", "[", "]", "1"}

s_ab_json == <<"[", "\"", "a", "\"", ",", "\"", "b", "\"", "]">>
s_abc_csv == <<"a", ",", "b", ",", "c">>

OtherRawLists ==
    {Undef, Null, Num(0), Num(5), Bool(TRUE), Obj([a |-> Num(1)]),
     Arr(<<>>), Arr(<<Str(<<"a">>), Str(<<"b">>)>>), Arr(<<Num(5)>>),
     Str(s_ab_json), Str(s_abc_csv), Str(s_null)}

\* a patient whose three list fields are all the raw value
ListFieldPatient(raw) ==
    RawPatient(Str(s_failure), Str(s_alive), Undef, raw, raw, raw)

Formats == {"enhanced", "legacy"}

---------------------------------------------------------------------------
(* handleJobResults                                                        *)

\* a message of a response body; no operation reads its characters
Text(s) == <<"text", s>>
ErrorBody(s) == Obj([error |-> Text(s)])

Request(method, id, format) ==
    [method |-> method, jobId |-> id, format |-> format]

\* what fetch and response.json() give: ok with the JSON body, a status
\* that is not ok, a body that is no JSON, or a network error (status 0)
JsonReply(body) == [status |-> 200, json |-> TRUE, body |-> body]
FailedReplies ==
    {[status |-> s, json |-> j, body |-> Undef] :
        s \in {0, 200, 404, 500}, j \in {FALSE}}

\* the requests served and the backend's answer to each: those the handler
\* refuses, those the backend fails, and those it answers with a payload
\* that has match records or no list of patients
Cases ==
    {<<Request(m, j, f), JsonReply(Null)>> :
        m \in {"GET", "POST"}, j \in {"", "job1"}, f \in Formats}
    \cup {<<Request("GET", "job1", f), r>> : f \in Formats, r \in FailedReplies}
    \cup {<<Request("GET", "job1", f), JsonReply(b)>> :
            f \in Formats, b \in OddPayloads \cup MatchPayloads}
    \cup {<<Request("GET", "job1", "legacy"),
            JsonReply(PatientPayload(ScenarioPatients))>>}
    \cup {<<Request("GET", "job1", "legacy"),
            JsonReply(PatientPayload(<<ListFieldPatient(raw)>>))>> :
            raw \in OtherRawLists}

\* the families of patients that lists of up to MaxPatients are drawn from:
\* patients that differ in outcome, status and count, and patients with
\* lists of concerns and causes
PatientFamilies == {OutcomePatients, ListPatients}

NoResponse == [status |-> 0, body |-> Undef]

\* the route has answered a request that names no job and serves no other
RouteIdle ==
    /\ req = Request("GET", "", "legacy")
    /\ backend = JsonReply(Null)
    /\ res = [status |-> 400, body |-> ErrorBody("Invalid job ID")]

---------------------------------------------------------------------------
(* pages/index.tsx: the state of the Home page when it mounts              *)

\* the jobs the backend can create and the requests of one kind that can
\* be in flight together
MaxJobs == 2
MaxInFlight == 2

JobIds == 1..MaxJobs

\* useState(null) of jobStatus
NoStatus == [status |-> "null", job_id |-> 0]

HomeInit ==
    /\ selectedCode = ""
    /\ comorbidities = <<>>
    /\ uploadedFiles = <<>>
    /\ columnMetadata = <<>>
    /\ currentStep = 1
    /\ jobId = 0
    /\ jobStatus = NoStatus
    /\ intervalId = 0
    /\ comorbidityFetches = <<>>
    /\ processFetches = <<>>
    /\ statusFetches = <<>>
    /\ jobs = [j \in JobIds |-> "none"]
    /\ stops = {}

---------------------------------------------------------------------------
(* The other components at rest: every specification below is of one      *)
(* component and holds the others in these states.                        *)

\* an upload proxy that has refused a GET
NoReply == [status |-> -1, json |-> FALSE]
UploadIdle ==
    /\ uploadReq = [handler |-> "generic", method |-> "GET", files |-> 0]
    /\ uploadPc = "done"
    /\ tmpFiles = {}
    /\ uploadReply = NoReply
    /\ uploadRes = 405

\* the JobAnalytics page before it mounts; loaded is FALSE for the null
\* of useState(null)
NoDashboard == [loaded |-> FALSE, overall |-> "null", recent_jobs |-> <<>>]
NoDialog == [job |-> 0, answer |-> "none"]
DashboardIdle ==
    /\ dashboardData = NoDashboard
    /\ dashboardLoading = TRUE
    /\ dashboardError = "null"
    /\ dialog = NoDialog
    /\ statsFetches = 0
    /\ deleteFetches = <<>>

\* the hook's component before it mounts
HookIdle ==
    /\ data = 0
    /\ loading = TRUE
    /\ error = 0
    /\ mounted = FALSE
    /\ requests = <<>>

---------------------------------------------------------------------------

Init ==
    /\ HomeInit
    /\ UploadIdle
    /\ DashboardIdle
    /\ HookIdle
    /\ res = NoResponse
    /\ \/ \E c \in Cases : req = c[1] /\ backend = c[2]
       \/ \E family \in PatientFamilies, n \in 0..MaxPatients :
            \E ps \in [1..n -> family] :
                /\ req = Request("GET", "job1", "enhanced")
                /\ backend = JsonReply(PatientPayload(AsList(ps, n)))
       \/ \E n \in 0..MaxLen : \E cs \in [1..n -> ListAlphabet] :
            /\ req = Request("GET", "job1", "legacy")
            /\ backend = JsonReply(PatientPayload(
                            <<ListFieldPatient(Str(AsList(cs, n)))>>))

Respond(status, body) ==
    /\ res' = [status |-> status, body |-> body]
    /\ UNCHANGED <<req, backend, notRoute>>

handleJobResults ==
    /\ res = NoResponse
    /\ \/ /\ req.method # "GET"
          /\ Respond(405, ErrorBody("Method not allowed"))
       \/ /\ req.method = "GET"
          /\ req.jobId = ""
          /\ Respond(400, ErrorBody("Invalid job ID"))
       \/ /\ req.method = "GET"
          /\ req.jobId # ""
          /\ backend.status = 404
          /\ Respond(404, ErrorBody("Job results not found in backend"))
       \/ /\ req.method = "GET"
          /\ req.jobId # ""
          \* fetch rejected, another status that is not ok, or
          \* response.json() rejected: the catch block answers
          /\ \/ backend.status \notin {200, 404}
             \/ backend.status = 200 /\ ~backend.json
          /\ Respond(500, ErrorBody("Failed to fetch job results"))
       \/ /\ req.method = "GET"
          /\ req.jobId # ""
          /\ backend.status = 200
          /\ backend.json
          /\ Respond(200,
                transformJobResultsForFrontend(backend.body, req.format))

Next == handleJobResults

Spec == Init /\ [][Next]_vars

---------------------------------------------------------------------------
(* What the claims read: the request's raw patients, the response's        *)
(* normalized patients and analytics                                       *)

\* a 200 response that carries the analytics the aggregation built
Aggregated ==
    /\ res.status = 200
    /\ IsObj(res.body)
    /\ IsObj(Get(res.body, "patient_analytics"))

analytics == Get(res.body, "patient_analytics")
surgeryOutcomes == Get(analytics, "surgery_outcomes")
mortalityAnalytics == Get(analytics, "mortality_analytics")
riskDistribution == Get(mortalityAnalytics, "risk_distribution")

\* the raw patient records of the backend's answer, and their normalized forms
rawPatients ==
    IF IsArr(Get(backend.body, "patient_summaries"))
    THEN Val(Get(backend.body, "patient_summaries")) ELSE <<>>
normalizedPatients ==
    IF IsArr(Get(res.body, "patient_summaries"))
    THEN Val(Get(res.body, "patient_summaries")) ELSE <<>>

CountOf(x) == Numer(x)
HowMany(seq, P(_)) == Cardinality({i \in DOMAIN seq : P(seq[i])})

OutcomeMissing(raw) ==
    Get(raw, "surgery_outcome") \in {Undef, Null, Str(<<>>)}
OutcomeIs(p, cs) == Get(p, "surgery_outcome") = Str(cs)
StatusIs(p, cs) == Get(p, "mortality_status") = Str(cs)

---------------------------------------------------------------------------
(* Claims                                                                  *)

\* C1: a raw patient whose surgery_outcome is absent, null or '' is
\* normalized to 'unknown', and is counted in surgery_outcomes.unknown and
\* not in surgery_outcomes.successful: the successful count is the number of
\* patients whose raw outcome is 'success', and the unknown count covers
\* every patient whose raw outcome is missing or 'unknown'.
C1_MissingOutcomeIsUnknown ==
    Aggregated =>
        /\ Len(normalizedPatients) = Len(rawPatients)
        /\ \A i \in DOMAIN rawPatients :
              OutcomeMissing(rawPatients[i]) =>
                  OutcomeIs(normalizedPatients[i], s_unknown)
        /\ CountOf(Get(surgeryOutcomes, "successful"))
              = HowMany(rawPatients, LAMBDA p : OutcomeIs(p, s_success))
        /\ CountOf(Get(surgeryOutcomes, "unknown"))
              = HowMany(rawPatients,
                    LAMBDA p : OutcomeMissing(p) \/ OutcomeIs(p, s_unknown))

\* a patient with a missing outcome beside one success
C1_Witness ==
    /\ Aggregated
    /\ \E i \in DOMAIN rawPatients : OutcomeMissing(rawPatients[i])
    /\ CountOf(Get(surgeryOutcomes, "unknown")) = 1
    /\ CountOf(Get(surgeryOutcomes, "successful")) = 1

\* C2: successful + failed + unknown equals total_patients for every patient
\* list, whatever non-empty string a raw surgery_outcome is.
C2_OutcomeCountsSumToTotal ==
    Aggregated =>
        CountOf(Get(surgeryOutcomes, "successful"))
            + CountOf(Get(surgeryOutcomes, "failed"))
            + CountOf(Get(surgeryOutcomes, "unknown"))
        = CountOf(Get(analytics, "total_patients"))

\* C3: deceased_patients + alive_patients equals total_patients for every
\* patient list, whatever non-empty string a raw mortality_status is.
C3_MortalityCountsSumToTotal ==
    Aggregated =>
        CountOf(Get(mortalityAnalytics, "deceased_patients"))
            + CountOf(Get(mortalityAnalytics, "alive_patients"))
        = CountOf(Get(analytics, "total_patients"))

\* C4: the normalized surgery_outcome is the raw value only when that is one
\* of 'success', 'failure', 'unknown'; every other raw value is normalized
\* to 'unknown'.
C4_OutcomeNormalizedToEnum ==
    Aggregated =>
        \A i \in DOMAIN rawPatients :
            LET raw == Get(rawPatients[i], "surgery_outcome")
                enum == {Str(s_success), Str(s_failure), Str(s_unknown)}
            IN  Get(normalizedPatients[i], "surgery_outcome")
                    = IF raw \in enum THEN raw ELSE Str(s_unknown)

\* the bucket the claim's precedence gives a normalized patient
ClaimedRisk(p) ==
    LET deceased == StatusIs(p, s_deceased)
        failed == OutcomeIs(p, s_failure)
        count == Get(p, "total_comorbidities")
    IN  CASE deceased /\ failed -> "Critical"
          [] ~(deceased /\ failed) /\ (deceased \/ (failed /\ JSGe(count, 3)))
                -> "High"
          [] ~deceased /\ ~(failed /\ JSGe(count, 3))
                /\ (failed \/ JSGe(count, 2)) -> "Medium"
          [] OTHER -> "Low"

RiskLevels == {"Critical", "High", "Medium", "Low"}

\* C5: each risk bucket counts the patients the first-match precedence puts
\* in it (Critical: deceased and failure; else High: deceased, or failure
\* with total_comorbidities >= 3; else Medium: failure or
\* total_comorbidities >= 2; else Low), and the four counts sum to
\* total_patients.
C5_RiskBuckets ==
    Aggregated =>
        /\ \A level \in RiskLevels :
              CountOf(Get(riskDistribution, level))
                = HowMany(normalizedPatients, LAMBDA p : ClaimedRisk(p) = level)
        /\ CountOf(Get(riskDistribution, "Critical"))
              + CountOf(Get(riskDistribution, "High"))
              + CountOf(Get(riskDistribution, "Medium"))
              + CountOf(Get(riskDistribution, "Low"))
           = CountOf(Get(analytics, "total_patients"))

\* a Critical patient (deceased, failure, 3 comorbidities) beside a High one
\* (failure, alive, 3 comorbidities)
C5_Witness ==
    /\ Aggregated
    /\ Len(normalizedPatients) = 2
    /\ CountOf(Get(riskDistribution, "Critical")) = 1
    /\ CountOf(Get(riskDistribution, "High")) = 1
    /\ \A i \in DOMAIN normalizedPatients :
          /\ OutcomeIs(normalizedPatients[i], s_failure)
          /\ Get(normalizedPatients[i], "total_comorbidities") = Num(3)

\* the four frequency maps of the summary
FrequencyMaps ==
    {Get(analytics, "most_common_comorbidities"),
     Get(analytics, "most_effective_columns"),
     Get(analytics, "failure_causes"),
     Get(mortalityAnalytics, "mortality_causes")}

\* C6: no frequency map of the summary has a key that is empty, 'null' or
\* 'undefined'.
C6_NoNullKeys ==
    Aggregated =>
        \A m \in FrequencyMaps :
            \A key \in DOMAIN Val(m) : key \notin {<<>>, s_null, s_undefined}

\* the comorbidity names a normalized patient's primary_concerns carry: the
\* plain strings and the comorbidity fields of objects, trimmed
ClaimedNames(p) ==
    LET concerns == Val(Get(p, "primary_concerns"))
        nameOf(c) == IF IsStr(c) THEN c ELSE Get(c, "comorbidity")
    IN  {Trim(Val(nameOf(concerns[j]))) :
            j \in {k \in DOMAIN concerns : NonBlank(nameOf(concerns[k]))}}

highRiskComorbidities == Val(Get(mortalityAnalytics, "high_risk_comorbidities"))

\* C7: a comorbidity name of the primary concerns is a key of
\* high_risk_comorbidities exactly when the mortality rate among the patients
\* whose primary_concerns carry that name is above 20, and the value stored
\* is that rate.
C7_HighRiskIffRateAbove20 ==
    Aggregated =>
        \A name \in UNION {ClaimedNames(normalizedPatients[i]) :
                              i \in DOMAIN normalizedPatients} :
            LET subset == {i \in DOMAIN normalizedPatients :
                              name \in ClaimedNames(normalizedPatients[i])}
                deceased == {i \in subset :
                                StatusIs(normalizedPatients[i], s_deceased)}
                rate == Percent(Cardinality(deceased), Cardinality(subset))
            IN  /\ name \in DOMAIN highRiskComorbidities <=> NumGt(rate, 20)
                /\ name \in DOMAIN highRiskComorbidities =>
                      highRiskComorbidities[name] = rate

\* C8: a batch of patient records (with no match records) is aggregated as
\* a whole even when one record carries a field that cannot be coerced: the
\* summary is built for all the patients, and the bad field counts as its
\* default, so the average of the comorbidity counts is a number.
C8_BadRecordDoesNotFailBatch ==
    (/\ res.status = 200
     /\ rawPatients # <<>>
     /\ \A i \in DOMAIN rawPatients : IsObj(rawPatients[i])
     /\ Get(backend.body, "matches") = Undef)
    => /\ Aggregated
       /\ CountOf(Get(analytics, "total_patients")) = Len(rawPatients)
       /\ IsNum(Get(analytics, "avg_comorbidities_per_patient"))

HasFields(o, fields) == IsObj(o) /\ DOMAIN Val(o) = fields

CompleteAnalytics(a) ==
    /\ HasFields(a, {"total_patients", "avg_comorbidities_per_patient",
                     "most_common_comorbidities", "most_effective_columns",
                     "surgery_outcomes", "mortality_analytics",
                     "failure_causes"})
    /\ HasFields(Get(a, "surgery_outcomes"),
                 {"successful", "failed", "unknown", "success_rate"})
    /\ HasFields(Get(a, "mortality_analytics"),
                 {"deceased_patients", "alive_patients", "mortality_rate",
                  "mortality_causes", "failed_surgery_deaths",
                  "success_surgery_deaths", "death_rate_in_failed",
                  "death_rate_in_successful", "high_risk_comorbidities",
                  "risk_distribution"})

\* C9: every 200 response of the job-results route is a structurally valid
\* summary: an object with the normalized stats and, when the payload has
\* patient summaries or the enhanced format is asked for, a complete
\* patient_analytics.
C9_AlwaysValidSummary ==
    res.status = 200 =>
        /\ HasFields(Get(res.body, "stats"),
                     {"rows_processed", "matches_found", "processing_time",
                      "successful_surgeries", "failed_surgeries",
                      "output_file_path"})
        /\ (\/ Truthy(Get(backend.body, "patient_summaries"))
            \/ req.format = "enhanced")
           => CompleteAnalytics(Get(res.body, "patient_analytics"))

\* a number in [0, 100]
IsPercentage(x) == IsNum(x) /\ 0 <= Numer(x) /\ Numer(x) <= 100 * Denom(x)

\* C10: every rate of the summary is a number in [0, 100], and is 0 when its
\* denominator (total_patients, failed, successful) is 0.
C10_RatesInRange ==
    Aggregated =>
        LET successRate == Get(surgeryOutcomes, "success_rate")
            mortalityRate == Get(mortalityAnalytics, "mortality_rate")
            inFailed == Get(mortalityAnalytics, "death_rate_in_failed")
            inSuccessful == Get(mortalityAnalytics, "death_rate_in_successful")
        IN  /\ \A r \in {successRate, mortalityRate, inFailed, inSuccessful} :
                  IsPercentage(r)
            /\ \A key \in DOMAIN highRiskComorbidities :
                  IsPercentage(highRiskComorbidities[key])
            /\ Get(analytics, "total_patients") = Num(0) =>
                  successRate = Num(0) /\ mortalityRate = Num(0)
            /\ Get(surgeryOutcomes, "failed") = Num(0) => inFailed = Num(0)
            /\ Get(surgeryOutcomes, "successful") = Num(0) =>
                  inSuccessful = Num(0)

\* two patients, none failed: the death rate among the failed is 0 by its
\* guard, beside a success rate of 50 and a high-risk comorbidity
C10_Witness ==
    /\ Aggregated
    /\ Get(analytics, "total_patients") = Num(2)
    /\ Get(surgeryOutcomes, "failed") = Num(0)
    /\ Get(mortalityAnalytics, "death_rate_in_failed") = Num(0)
    /\ Get(surgeryOutcomes, "success_rate") = Num(50)
    /\ DOMAIN highRiskComorbidities # {}

\* C11: success_rate is the number of patients whose surgery_outcome is
\* 'success' over total_patients, times 100: a patient with an unknown outcome
\* counts in the denominator and not in the numerator.
C11_SuccessRateOverAllPatients ==
    (Aggregated /\ normalizedPatients # <<>>) =>
        LET successRate == Get(surgeryOutcomes, "success_rate")
            successes == HowMany(normalizedPatients,
                                 LAMBDA p : OutcomeIs(p, s_success))
        IN  /\ IsNum(successRate)
            /\ Numer(successRate) * Len(normalizedPatients)
                  = 100 * successes * Denom(successRate)

\* the documented scenario: 6 success, 3 failure, 1 unknown give 60
C11_Witness ==
    /\ Aggregated
    /\ Len(normalizedPatients) = 10
    /\ Get(surgeryOutcomes, "successful") = Num(6)
    /\ Get(surgeryOutcomes, "failed") = Num(3)
    /\ Get(surgeryOutcomes, "unknown") = Num(1)
    /\ Get(surgeryOutcomes, "success_rate") = Num(60)

\* the match records of the backend's answer, [] when it has none
rawMatches == Or(Get(backend.body, "matches"), Arr(<<>>))

ZeroCounts(o) == \A k \in DOMAIN Val(o) : Val(o)[k] = Num(0)

\* C12: for an empty patient list, with any match records, the summary has
\* total_patients 0, an average of 0, every count and rate 0, the four risk
\* buckets 0 and every frequency map empty.
C12_EmptyListGivesZeroSummary ==
    (Aggregated /\ rawPatients = <<>>) =>
        /\ Get(analytics, "total_patients") = Num(0)
        /\ Get(analytics, "avg_comorbidities_per_patient") = Num(0)
        /\ DOMAIN Val(surgeryOutcomes)
              = {"successful", "failed", "unknown", "success_rate"}
        /\ ZeroCounts(surgeryOutcomes)
        /\ \A k \in {"deceased_patients", "alive_patients", "mortality_rate",
                      "failed_surgery_deaths", "success_surgery_deaths",
                      "death_rate_in_failed", "death_rate_in_successful"} :
              Get(mortalityAnalytics, k) = Num(0)
        /\ DOMAIN Val(riskDistribution) = RiskLevels
        /\ ZeroCounts(riskDistribution)
        /\ \A m \in FrequencyMaps : DOMAIN Val(m) = {}
        /\ DOMAIN highRiskComorbidities = {}

\* no patient, and a match record that names a comorbidity and a column
C12_Witness ==
    /\ Aggregated
    /\ IsArr(Get(backend.body, "patient_summaries"))
    /\ rawPatients = <<>>
    /\ IsArr(rawMatches)
    /\ \E i \in DOMAIN Val(rawMatches) :
          /\ NonBlank(Get(Val(rawMatches)[i], "comorbidity_name"))
          /\ NonBlank(Get(Val(rawMatches)[i], "column_name"))

\* The list the documentation of normalizeStringList gives a raw value,
\* stated on the characters: the blanks around a piece are those before its
\* first and after its last character that is no blank.
Blank(cs) == \A k \in DOMAIN cs : cs[k] = " "
Trimmed(cs) ==
    IF Blank(cs) THEN <<>>
    ELSE LET solid == {k \in DOMAIN cs : cs[k] # " "}
             first == CHOOSE k \in solid : \A j \in solid : k <= j
             last == CHOOSE k \in solid : \A j \in solid : k >= j
         IN  SubSeq(cs, first, last)
Stripped(cs) == SelectSeq(cs, LAMBDA c : c \notin {"\"", "[", "]"})

\* the pieces between the commas of cs, in order
CommaPieces(cs) ==
    LET commas == {k \in DOMAIN cs : cs[k] = ","}
        cuts == {0} \cup commas \cup {Len(cs) + 1}
        nth(j) == CHOOSE k \in cuts : Cardinality({c \in cuts : c < k}) = j
    IN  [j \in 1..(Cardinality(commas) + 1) |->
            SubSeq(cs, nth(j - 1) + 1, nth(j) - 1)]

ClaimedList(raw, fallback) ==
    IF IsArr(raw) THEN raw
    ELSE IF IsStr(raw) /\ ~Blank(Val(raw))
    THEN LET cs == Val(raw)
             decoded == JSONParse(cs)
             pieces == CommaPieces(cs)
             cleaned == [j \in DOMAIN pieces |-> Str(Stripped(Trimmed(pieces[j])))]
         IN  IF decoded[1]
             THEN (IF IsArr(decoded[2]) THEN decoded[2] ELSE Arr(<<decoded[2]>>))
             ELSE IF \E k \in DOMAIN cs : cs[k] = ","
             THEN Arr(SelectSeq(cleaned, LAMBDA piece : piece # Str(<<>>)))
             ELSE Arr(<<Str(Stripped(cs))>>)
    ELSE fallback

ListFields == {"failure_causes", "primary_concerns", "mortality_causes"}

\* C13: the normalized list field of a patient is the raw value itself when
\* that is a list; for a non-blank string that decodes as JSON, the decoded
\* array or the one-element list of the decoded scalar; for a non-blank string
\* that does not decode, the comma-separated pieces trimmed, stripped of the
\* double quote and the square brackets and without the empty pieces when it
\* has a comma, and else the one-element list of the stripped string; and the
\* empty list for every other value.  '["a","b"]' gives [a, b], 'a,b,c' gives
\* [a, b, c], and null gives [].
C13_NormalizeStringList ==
    Aggregated =>
        \A i \in DOMAIN rawPatients : \A field \in ListFields :
            LET raw == Get(rawPatients[i], field)
                list == Get(normalizedPatients[i], field)
            IN  /\ list = ClaimedList(raw, Arr(<<>>))
                /\ raw = Str(s_ab_json) =>
                      list = Arr(<<Str(<<"a">>), Str(<<"b">>)>>)
                /\ raw = Str(s_abc_csv) =>
                      list = Arr(<<Str(<<"a">>), Str(<<"b">>), Str(<<"c">>)>>)
                /\ raw = Null => list = Arr(<<>>)

\* '[a,' does not decode and has a comma: its pieces '[a' and '' give [a]
C13_Witness ==
    /\ Aggregated
    /\ Len(rawPatients) = 1
    /\ Get(rawPatients[1], "failure_causes") = Str(<<"[", "a", ",">>)
    /\ Get(normalizedPatients[1], "failure_causes") = Arr(<<Str(<<"a">>)>>)

\* a trimmed, non-empty string that is neither 'null' nor 'undefined'
CleanString(x) ==
    /\ IsStr(x)
    /\ Val(x) # <<>>
    /\ Trimmed(Val(x)) = Val(x)
    /\ Val(x) \notin {s_null, s_undefined}

\* C14: after normalization each of a patient's failure_causes,
\* primary_concerns and mortality_causes is a list of trimmed, non-empty
\* strings, none of them 'null' or 'undefined', whatever the raw form was.
C14_ListsOfCleanStrings ==
    Aggregated =>
        \A i \in DOMAIN normalizedPatients : \A field \in ListFields :
            LET list == Get(normalizedPatients[i], field)
            IN  /\ IsArr(list)
                /\ \A j \in DOMAIN Val(list) : CleanString(Val(list)[j])

\* C15: the normalization of a list field never fails and gives a list, for
\* every raw value: a list, a string of any content, a number, an object,
\* null or undefined.
C15_AlwaysAList ==
    \A i \in DOMAIN rawPatients : \A field \in ListFields :
        LET raw == Get(rawPatients[i], field)
            list == safeParseJSONArray(raw, Arr(<<>>))
        IN  /\ ~Threw(list)
            /\ IsArr(list)
            /\ Aggregated => Get(normalizedPatients[i], field) = list

\* a string that is no JSON and a number, each normalized to a list
C15_Witness ==
    /\ Aggregated
    /\ Len(rawPatients) = 1
    /\ Get(rawPatients[1], "primary_concerns") \in {Str(<<"[", "\"", "a">>), Num(5)}
    /\ IsArr(Get(normalizedPatients[1], "primary_concerns"))

\* C16: a raw patient whose mortality_status is absent, null or '' is
\* normalized to 'alive'; any non-empty raw status is kept as it is.
C16_MissingStatusIsAlive ==
    Aggregated =>
        \A i \in DOMAIN rawPatients :
            LET raw == Get(rawPatients[i], "mortality_status")
                status == Get(normalizedPatients[i], "mortality_status")
            IN  /\ raw \in {Undef, Null, Str(<<>>)} => status = Str(s_alive)
                /\ (IsStr(raw) /\ Val(raw) # <<>>) => status = raw

\* a patient without a status beside one whose status is 'unknown'
C16_Witness ==
    /\ Aggregated
    /\ Len(rawPatients) = 2
    /\ Get(rawPatients[1], "mortality_status") = Null
    /\ Get(normalizedPatients[1], "mortality_status") = Str(s_alive)
    /\ Get(rawPatients[2], "mortality_status") = Str(s_unknown)
    /\ Get(normalizedPatients[2], "mortality_status") = Str(s_unknown)

\* the list with its elements at i and j exchanged
Swap(seq, i, j) == [seq EXCEPT ![i] = seq[j], ![j] = seq[i]]

\* the backend's payload with another list of patients, or of match records
WithPatients(ps) ==
    Obj([k \in DOMAIN Val(backend.body) |->
            IF k = "patient_summaries" THEN Arr(ps) ELSE Val(backend.body)[k]])
WithMatches(ms) ==
    Obj([k \in DOMAIN Val(backend.body) |->
            IF k = "matches" THEN Arr(ms) ELSE Val(backend.body)[k]])

\* the counts, rates and frequency maps of a summary: all of it but the
\* average of the comorbidity counts
CountsRatesAndMaps(a) ==
    [k \in DOMAIN Val(a) \ {"avg_comorbidities_per_patient"} |-> Val(a)[k]]

SameSummary(payload) ==
    LET other == transformJobResultsForFrontend(payload, req.format)
    IN  /\ IsObj(other)
        /\ IsObj(Get(other, "patient_analytics"))
        /\ CountsRatesAndMaps(Get(other, "patient_analytics"))
              = CountsRatesAndMaps(analytics)

C18_NormalizationIdempotent ==
    /\ \A i \in DOMAIN rawPatients :
          IsObj(rawPatients[i]) =>
              LET once == patientSummary(rawPatients[i])
                  twice == patientSummary(once)
              IN  /\ DOMAIN Val(twice) = DOMAIN Val(once)
                  /\ \A field \in DOMAIN Val(once) :
                        Val(twice)[field] = Val(once)[field]
    /\ Aggregated =>
          \A i \in DOMAIN normalizedPatients :
              patientSummary(normalizedPatients[i]) = normalizedPatients[i]

\* a record whose normalization decoded a list of two causes from a string
\* and defaulted the count
C18_Witness ==
    /\ Aggregated
    /\ \E i \in DOMAIN rawPatients :
          /\ IsStr(Get(rawPatients[i], "failure_causes"))
          /\ Len(Val(Get(normalizedPatients[i], "failure_causes"))) = 2
          /\ Get(rawPatients[i], "total_comorbidities") = Undef
          /\ normalizedPatients[i] # rawPatients[i]
          /\ patientSummary(normalizedPatients[i]) = normalizedPatients[i]

\* the name a concern of a normalized patient carries
ConcernName(concern) ==
    IF IsStr(concern) THEN concern ELSE Get(concern, "comorbidity")

\* the places <<patient, entry>> of the primary concerns that carry the name
ConcernOccurrences(name) ==
    {place \in UNION {{<<i, j>> :
                          j \in DOMAIN Val(Get(normalizedPatients[i],
                                               "primary_concerns"))} :
                      i \in DOMAIN normalizedPatients} :
        LET concern == Val(Get(normalizedPatients[place[1]],
                               "primary_concerns"))[place[2]]
        IN  /\ NonBlank(ConcernName(concern))
            /\ Trimmed(Val(ConcernName(concern))) = name}

\* the frequency map of a field of the match records: each non-blank name
\* with the number of match records that carry it
MatchFrequencies(field) ==
    LET matchList == Val(rawMatches)
        named == {i \in DOMAIN matchList : NonBlank(Get(matchList[i], field))}
    IN  [name \in {Val(Get(matchList[i], field)) : i \in named} |->
            Num(Cardinality({i \in named :
                                Get(matchList[i], field) = Str(name)}))]

\* most_common_comorbidities as the claim builds it
ClaimedComorbidities ==
    LET names == UNION {ClaimedNames(normalizedPatients[i]) :
                           i \in DOMAIN normalizedPatients}
    IN  IF names = {} /\ Len(Val(rawMatches)) > 0
        THEN MatchFrequencies("comorbidity_name")
        ELSE [name \in names |-> Num(Cardinality(ConcernOccurrences(name)))]

mostCommonComorbidities == Val(Get(analytics, "most_common_comorbidities"))
mostEffectiveColumns == Val(Get(analytics, "most_effective_columns"))

\* C19, as stated: most_common_comorbidities counts the names of the
\* patients' primary_concerns (a string entry, or the comorbidity field of an
\* object entry, trimmed, once per occurrence), and the counts of the match
\* records' comorbidity_name are used instead exactly when that map is empty
\* and the match list is not.
C19_ComorbiditiesFromConcernsOrMatches ==
    (Aggregated /\ IsArr(rawMatches)) =>
        mostCommonComorbidities = ClaimedComorbidities

\* C19, amended: the statement holds for a patient list that is not empty;
\* for an empty patient list the map is empty whatever the match records.
C19_Amended ==
    (Aggregated /\ IsArr(rawMatches)) =>
        mostCommonComorbidities
            = IF normalizedPatients = <<>> THEN EmptyMap
              ELSE ClaimedComorbidities

\* a patient without a concern, and match records whose names are counted
C19_Witness ==
    /\ Aggregated
    /\ IsArr(rawMatches)
    /\ Len(normalizedPatients) = 1
    /\ Get(normalizedPatients[1], "primary_concerns") = Arr(<<>>)
    /\ Len(Val(rawMatches)) = 2
    /\ Cardinality(DOMAIN mostCommonComorbidities) = 2

\* C20, as stated: for every input most_effective_columns is the frequency
\* map of the match records' column_name: each column name with the number of
\* match records that name it.
C20_ColumnsAreMatchFrequencies ==
    (Aggregated /\ IsArr(rawMatches)) =>
        mostEffectiveColumns = MatchFrequencies("column_name")

\* C20, amended: the statement holds for a patient list that is not empty;
\* for an empty patient list the map is empty whatever the match records.
C20_Amended ==
    (Aggregated /\ IsArr(rawMatches)) =>
        mostEffectiveColumns
            = IF normalizedPatients = <<>> THEN EmptyMap
              ELSE MatchFrequencies("column_name")

\* a patient, and two match records that name two columns
C20_Witness ==
    /\ Aggregated
    /\ IsArr(rawMatches)
    /\ Len(normalizedPatients) = 1
    /\ Len(Val(rawMatches)) = 2
    /\ Cardinality(DOMAIN mostEffectiveColumns) = 2

\* the places <<patient, entry>> of a list field, among the normalized
\* patients that are selected, whose entry is a string that trims to the name
Occurrences(field, selected(_), name) ==
    {place \in UNION {{<<i, j>> :
                          j \in DOMAIN Val(Get(normalizedPatients[i], field))} :
                      i \in {k \in DOMAIN normalizedPatients :
                                selected(normalizedPatients[k])}} :
        LET entry == Val(Get(normalizedPatients[place[1]], field))[place[2]]
        IN  NonBlank(entry) /\ Trimmed(Val(entry)) = name}

\* the names a list field gives among the selected patients
NamesIn(field, selected(_)) ==
    UNION {{Trimmed(Val(Val(Get(normalizedPatients[i], field))[j])) :
               j \in {k \in DOMAIN Val(Get(normalizedPatients[i], field)) :
                         NonBlank(Val(Get(normalizedPatients[i], field))[k])}} :
           i \in {k \in DOMAIN normalizedPatients :
                     selected(normalizedPatients[k])}}

mortalityCauses == Val(Get(mortalityAnalytics, "mortality_causes"))
failureCauses == Val(Get(analytics, "failure_causes"))

\* n is the rate part / whole * 100, and 0 when whole is 0
IsRateOf(rate, part, whole) ==
    /\ IsNum(rate)
    /\ IF whole = 0 THEN rate = Num(0)
       ELSE Numer(rate) * whole = 100 * part * Denom(rate)

\* C21: failed_surgery_deaths counts the deceased patients whose outcome is
\* failure and success_surgery_deaths those whose outcome is success, so each
\* is at most failed, resp. successful, and their sum at most
\* deceased_patients; mortality_causes counts the causes of deceased patients
\* only; and the two death rates are failed_surgery_deaths / failed * 100 and
\* success_surgery_deaths / successful * 100.
C21_CrossTabulation ==
    Aggregated =>
        LET deceased(p) == StatusIs(p, s_deceased)
            failedDeaths == CountOf(Get(mortalityAnalytics, "failed_surgery_deaths"))
            successDeaths == CountOf(Get(mortalityAnalytics, "success_surgery_deaths"))
            failed == CountOf(Get(surgeryOutcomes, "failed"))
            successful == CountOf(Get(surgeryOutcomes, "successful"))
        IN  /\ failedDeaths = HowMany(normalizedPatients,
                    LAMBDA p : deceased(p) /\ OutcomeIs(p, s_failure))
            /\ successDeaths = HowMany(normalizedPatients,
                    LAMBDA p : deceased(p) /\ OutcomeIs(p, s_success))
            /\ failedDeaths <= failed
            /\ successDeaths <= successful
            /\ failedDeaths + successDeaths
                  <= CountOf(Get(mortalityAnalytics, "deceased_patients"))
            /\ DOMAIN mortalityCauses \subseteq NamesIn("mortality_causes", deceased)
            /\ \A cause \in DOMAIN mortalityCauses :
                  /\ CountOf(mortalityCauses[cause]) >= 1
                  /\ CountOf(mortalityCauses[cause])
                        <= Cardinality(Occurrences("mortality_causes",
                                                   deceased, cause))
            /\ IsRateOf(Get(mortalityAnalytics, "death_rate_in_failed"),
                        failedDeaths, failed)
            /\ IsRateOf(Get(mortalityAnalytics, "death_rate_in_successful"),
                        successDeaths, successful)

\* a deceased patient of unknown outcome whose cause is counted, beside a
\* patient that is alive and lists a cause that is not
C21_Witness ==
    /\ Aggregated
    /\ Len(normalizedPatients) = 2
    /\ StatusIs(normalizedPatients[1], s_alive)
    /\ Get(normalizedPatients[1], "mortality_causes") = Arr(<<Str(s_MI)>>)
    /\ StatusIs(normalizedPatients[2], s_deceased)
    /\ OutcomeIs(normalizedPatients[2], s_unknown)
    /\ mortalityCauses = (s_MI :> Num(1))
    /\ Get(mortalityAnalytics, "failed_surgery_deaths") = Num(0)
    /\ Get(mortalityAnalytics, "success_surgery_deaths") = Num(0)

\* C22: failure_causes counts causes of the patients whose surgery_outcome
\* is 'failure' only: a cause listed on a patient of another outcome never
\* contributes, and each trimmed cause of a failed patient (a non-empty
\* string other than 'null' and 'undefined') counts one per occurrence.
C22_FailureCausesOfFailedOnly ==
    Aggregated =>
        LET failed(p) == OutcomeIs(p, s_failure)
        IN  failureCauses
              = [cause \in NamesIn("failure_causes", failed)
                              \ {s_null, s_undefined} |->
                    Num(Cardinality(Occurrences("failure_causes", failed, cause)))]

\* a successful patient that lists a cause, beside a failed one whose cause
\* is counted once
C22_Witness ==
    /\ Aggregated
    /\ Len(normalizedPatients) = 2
    /\ OutcomeIs(normalizedPatients[1], s_success)
    /\ Get(normalizedPatients[1], "failure_causes") = Arr(<<Str(s_MI)>>)
    /\ OutcomeIs(normalizedPatients[2], s_failure)
    /\ Get(normalizedPatients[2], "failure_causes") = Arr(<<Str(s_MI)>>)
    /\ failureCauses = (s_MI :> Num(1))

---------------------------------------------------------------------------
(* pages/index.tsx: the Home page. Each action is one handler, or the      *)
(* continuation of one after an await, followed by the effects that React  *)
(* runs for the state it has set.                                          *)

\* the codes of the selector ('' is its empty option), the files a user
\* uploads, and the lists of files handed to handleFileUpload
Codes == {"A", "B"}
FileNames == {"a.xlsx", "b.xlsx"}
FileLists == {<<>>} \cup {<<f>> : f \in FileNames}

\* what GET /api/comorbidities/<code> lists: code is the code it was asked
ComorbidityId == 1
backendComorbidities(code) == <<[id |-> ComorbidityId, code |-> code]>>

\* data.map(c => ({ ...c, enabled: true }))
withEnabled(list) ==
    [k \in 1..Len(list) |->
        [id |-> list[k].id, code |-> list[k].code, enabled |-> TRUE]]

\* the answers to a comorbidity request: an array, another JSON value, or
\* a status that is not ok or a network error
ComorbidityAnswers == {"array", "notArray", "failed"}

\* the configurations ColumnConfiguration hands to onConfigurationChange:
\* the analysed file with one column, enabled or not, with or without a
\* selected comorbidity
ColumnMappings ==
    [isEnabled : BOOLEAN, selectedComorbidities : {<<>>, <<ComorbidityId>>}]
Configurations ==
    {<<[fileName |-> f, columnMappings |-> <<m>>]>> :
        f \in FileNames, m \in ColumnMappings}

Remove(seq, i) == SubSeq(seq, 1, i - 1) \o SubSeq(seq, i + 1, Len(seq))

hasValidConfig(metadata) ==
    \E f \in 1..Len(metadata) :
        \E c \in 1..Len(metadata[f].columnMappings) :
            LET col == metadata[f].columnMappings[c]
            IN  col.isEnabled /\ Len(col.selectedComorbidities) > 0

\* the effect with step 5 for any configuration that is not empty
deriveStep_anyConfig(code, list, files, metadata) ==
    IF code # "" /\ Len(list) > 0
    THEN IF Len(files) > 0
         THEN IF Len(metadata) > 0 THEN 5 ELSE 4
         ELSE 3
    ELSE IF code # "" THEN 2 ELSE 1

\* the step the effect sets for the four inputs
deriveStep(code, list, files, metadata) ==
    IF code # "" /\ Len(list) > 0
    THEN IF Len(files) > 0
         THEN IF Len(metadata) > 0
              THEN (IF hasValidConfig(metadata) THEN 5 ELSE 4)
              ELSE 4
         ELSE 3
    ELSE IF code # "" THEN 2 ELSE 1

\* the effect on [selectedCode, comorbidities, uploadedFiles, columnMetadata]
stepEffect ==
    currentStep' =
        deriveStep(selectedCode', comorbidities', uploadedFiles',
                   columnMetadata')

\* setSelectedCode, then the request for the code's comorbidities; the
\* empty option clears the list at once
handleCodeSelection(code) ==
    /\ selectedCode' = code
    /\ IF code # ""
       THEN /\ Len(comorbidityFetches) < MaxInFlight
            /\ comorbidityFetches' = Append(comorbidityFetches, code)
            /\ UNCHANGED comorbidities
       ELSE /\ comorbidities' = <<>>
            /\ UNCHANGED comorbidityFetches
    /\ UNCHANGED <<uploadedFiles, columnMetadata>>
    /\ stepEffect
    /\ UNCHANGED <<pollerVars, processFetches, notPage>>

\* handleCodeSelection after its await: the answer to request i arrives
comorbiditiesResponse(i, answer) ==
    /\ i \in 1..Len(comorbidityFetches)
    /\ comorbidities' =
            IF answer = "array"
            THEN withEnabled(backendComorbidities(comorbidityFetches[i]))
            ELSE <<>>
    /\ comorbidityFetches' = Remove(comorbidityFetches, i)
    /\ UNCHANGED <<selectedCode, uploadedFiles, columnMetadata>>
    /\ stepEffect
    /\ UNCHANGED <<pollerVars, processFetches, notPage>>

\* the toggle of ComorbidityManagement, shown while a code is selected
onComorbidityToggle(id) ==
    /\ selectedCode # ""
    /\ \E k \in 1..Len(comorbidities) : comorbidities[k].id = id
    /\ comorbidities' =
            [k \in 1..Len(comorbidities) |->
                IF comorbidities[k].id = id
                THEN [comorbidities[k] EXCEPT !.enabled = ~@]
                ELSE comorbidities[k]]
    /\ UNCHANGED <<selectedCode, uploadedFiles, columnMetadata>>
    /\ stepEffect
    /\ UNCHANGED <<pollerVars, comorbidityFetches, processFetches, notPage>>

\* the lists ComorbidityManagement hands to onComorbidityUpdate: all
\* enabled, all disabled, or the list without a deleted comorbidity
UpdateKinds == {"selectAll", "clearAll", "delete"}
ComorbidityUpdate(kind, list) ==
    IF kind = "delete"
    THEN SelectSeq(list, LAMBDA c : c.id # ComorbidityId)
    ELSE [k \in 1..Len(list) |->
            [list[k] EXCEPT !.enabled = (kind = "selectAll")]]

handleComorbidityUpdate(updatedComorbidities) ==
    /\ selectedCode # ""
    /\ Len(comorbidities) > 0
    /\ comorbidities' = updatedComorbidities
    /\ UNCHANGED <<selectedCode, uploadedFiles, columnMetadata>>
    /\ stepEffect
    /\ UNCHANGED <<pollerVars, comorbidityFetches, processFetches, notPage>>

\* FileUpload is shown while a code is selected and the list is not empty
handleFileUpload(files) ==
    /\ selectedCode # ""
    /\ Len(comorbidities) > 0
    /\ uploadedFiles' = files
    /\ columnMetadata' = <<>>
    /\ UNCHANGED <<selectedCode, comorbidities>>
    /\ stepEffect
    /\ UNCHANGED <<pollerVars, comorbidityFetches, processFetches, notPage>>

\* onConfigurationChange of ColumnConfiguration, shown while a file is
\* uploaded
setColumnMetadata(config) ==
    /\ Len(uploadedFiles) > 0
    /\ columnMetadata' = config
    /\ UNCHANGED <<selectedCode, comorbidities, uploadedFiles>>
    /\ stepEffect
    /\ UNCHANGED <<pollerVars, comorbidityFetches, processFetches, notPage>>

\* the guards of handleStartProcessing: a file, a configuration, a code,
\* and the configuration of the first file
canSubmit ==
    /\ ~(Len(uploadedFiles) = 0 \/ Len(columnMetadata) = 0 \/ selectedCode = "")
    /\ \E k \in 1..Len(columnMetadata) :
            columnMetadata[k].fileName = uploadedFiles[1]

\* a click on Start Processing, shown while columnMetadata is not empty:
\* an alert and nothing else, or the POST of the first file
handleStartProcessing ==
    /\ Len(columnMetadata) > 0
    /\ IF canSubmit
       THEN /\ Len(processFetches) < MaxInFlight
            /\ processFetches' =
                    Append(processFetches,
                           [file |-> uploadedFiles[1], icmp_code |-> selectedCode])
       ELSE UNCHANGED processFetches
    /\ UNCHANGED <<wizardVars, pollerVars, comorbidityFetches, notPage>>

\* handleStartProcessing after its await: the backend has created the next
\* job (setJobId, the placeholder status, and the polling effect, which
\* clears the interval of the job before and sets one for this job), or
\* it has refused and the page alerts
processResponse(i, ok) ==
    /\ i \in 1..Len(processFetches)
    /\ processFetches' = Remove(processFetches, i)
    /\ IF ok
       THEN \E j \in JobIds :
                /\ jobs[j] = "none"
                /\ \A k \in 1..(j - 1) : jobs[k] # "none"
                /\ jobs' = [jobs EXCEPT ![j] = "pending"]
                /\ jobId' = j
                /\ jobStatus' = [status |-> "pending", job_id |-> 0]
                /\ intervalId' = j
       ELSE UNCHANGED <<jobId, jobStatus, intervalId, jobs>>
    /\ UNCHANGED <<wizardVars, statusFetches, stops, comorbidityFetches, notPage>>

\* the interval fires: fetchStatus sends a request for the job of its
\* effect, whether or not the one before has returned
Tick ==
    /\ intervalId # 0
    /\ Len(statusFetches) < MaxInFlight
    /\ statusFetches' =
            Append(statusFetches, [job |-> intervalId, answer |-> "none"])
    /\ UNCHANGED <<jobId, jobStatus, intervalId, jobs, stops>>
    /\ UNCHANGED <<wizardVars, comorbidityFetches, processFetches, notPage>>

\* the backend works on a job
backendProgress(j, end) ==
    /\ jobs[j] \in {"pending", "processing"}
    /\ jobs' = [jobs EXCEPT ![j] = IF @ = "pending" THEN "processing" ELSE end]
    /\ UNCHANGED <<jobId, jobStatus, intervalId, statusFetches, stops>>
    /\ UNCHANGED <<wizardVars, comorbidityFetches, processFetches, notPage>>

\* the backend answers status request i with the job's status of the
\* moment, or the request fails (a status that is not ok, a network error)
backendAnswer(i, ok) ==
    /\ i \in 1..Len(statusFetches)
    /\ statusFetches[i].answer = "none"
    /\ statusFetches' =
            [statusFetches EXCEPT
                ![i].answer = IF ok THEN jobs[statusFetches[i].job] ELSE "failed"]
    /\ UNCHANGED <<jobId, jobStatus, intervalId, jobs, stops>>
    /\ UNCHANGED <<wizardVars, comorbidityFetches, processFetches, notPage>>

Terminal == {"completed", "error"}

\* fetchStatus after its await: setJobStatus(data), and clearInterval of
\* its own interval on a terminal status or on a failure
statusResponse(i) ==
    /\ i \in 1..Len(statusFetches)
    /\ statusFetches[i].answer # "none"
    /\ LET job == statusFetches[i].job
           answer == statusFetches[i].answer
       IN  /\ jobStatus' =
                IF answer = "failed"
                THEN jobStatus
                ELSE [status |-> answer, job_id |-> job]
           /\ intervalId' =
                IF answer \in Terminal \cup {"failed"} /\ intervalId = job
                THEN 0
                ELSE intervalId
           /\ stops' =
                IF answer = "failed" THEN stops \cup {<<job, "failed">>}
                ELSE IF answer \in Terminal THEN stops \cup {<<job, "terminal">>}
                ELSE stops
    /\ statusFetches' = Remove(statusFetches, i)
    /\ UNCHANGED <<jobId, jobs>>
    /\ UNCHANGED <<wizardVars, comorbidityFetches, processFetches, notPage>>

\* The page is checked in two parts that share every action of a
\* submission. In the first the user works through the wizard and submits
\* while no interval fires; in the second the wizard is configured and
\* the user submits while the intervals fire and the backend works.
WizardNext ==
    \/ \E code \in Codes \cup {""} : handleCodeSelection(code)
    \/ \E i \in 1..MaxInFlight, answer \in ComorbidityAnswers :
            comorbiditiesResponse(i, answer)
    \/ onComorbidityToggle(ComorbidityId)
    \/ \E kind \in UpdateKinds :
            handleComorbidityUpdate(ComorbidityUpdate(kind, comorbidities))
    \/ \E files \in FileLists : handleFileUpload(files)
    \/ \E config \in Configurations : setColumnMetadata(config)
    \/ handleStartProcessing
    \/ \E i \in 1..MaxInFlight, ok \in BOOLEAN : processResponse(i, ok)

WizardInit ==
    HomeInit /\ RouteIdle /\ UploadIdle /\ DashboardIdle /\ HookIdle

WizardSpec == WizardInit /\ [][WizardNext]_vars

\* a wizard at step 5: a code, its list, a file and a valid configuration
Configured ==
    \E code \in Codes, f \in FileNames :
        /\ selectedCode = code
        /\ comorbidities = withEnabled(backendComorbidities(code))
        /\ uploadedFiles = <<f>>
        /\ columnMetadata =
                <<[fileName |-> f,
                   columnMappings |->
                       <<[isEnabled |-> TRUE,
                          selectedComorbidities |-> <<ComorbidityId>>]>>]>>
        /\ currentStep = 5

PollerInit ==
    /\ RouteIdle
    /\ UploadIdle
    /\ DashboardIdle
    /\ HookIdle
    /\ Configured
    /\ jobId = 0
    /\ jobStatus = NoStatus
    /\ intervalId = 0
    /\ comorbidityFetches = <<>>
    /\ processFetches = <<>>
    /\ statusFetches = <<>>
    /\ jobs = [j \in JobIds |-> "none"]
    /\ stops = {}

PollerNext ==
    \/ handleStartProcessing
    \/ \E i \in 1..MaxInFlight, ok \in BOOLEAN : processResponse(i, ok)
    \/ Tick
    \/ \E j \in JobIds, end \in Terminal : backendProgress(j, end)
    \/ \E i \in 1..MaxInFlight, ok \in BOOLEAN : backendAnswer(i, ok)
    \/ \E i \in 1..MaxInFlight : statusResponse(i)

PollerSpec == PollerInit /\ [][PollerNext]_vars

---------------------------------------------------------------------------

\* the status shown is one the backend gave for the job being tracked
ShownFor(status) == jobId # 0 /\ status.job_id = jobId

\* C23: once a response with status 'completed' or 'error' has been
\* applied to jobStatus for the current job, no later step replaces
\* jobStatus by a non-terminal status for that job, however ticks and
\* response arrivals interleave.
C23_TerminalStatusIsFinal ==
    [][(/\ ShownFor(jobStatus)
        /\ jobStatus.status \in Terminal
        /\ jobId' = jobId)
            => ~(ShownFor(jobStatus)' /\ jobStatus'.status \notin Terminal)]_vars

\* this step sends a status request for the job
Issues(job) ==
    /\ Len(statusFetches') = Len(statusFetches) + 1
    /\ statusFetches'[Len(statusFetches')].job = job

\* a status request for the job has failed
Failed(job) == <<job, "failed">> \in stops

\* a terminal status has been received for the job, or a request has failed
Stopped(job) == \E reason \in {"terminal", "failed"} : <<job, reason>> \in stops

\* C24: while jobId is unchanged, no status request is sent for it once a
\* terminal status has been received or one status request has failed, and
\* after a failed request jobStatus stays at its last value.
C24_StoppedPollerIsSilent ==
    [][(jobId # 0 /\ jobId' = jobId)
            => /\ Stopped(jobId) => ~Issues(jobId)
               /\ Failed(jobId) => jobStatus' = jobStatus]_vars

\* the first half of C24 alone: a stopped poller sends no request
NoRequestOnceStopped ==
    [][(jobId # 0 /\ jobId' = jobId /\ Stopped(jobId)) => ~Issues(jobId)]_vars

---------------------------------------------------------------------------

\* this step sends POST /api/process-file-enhanced
Submits == Len(processFetches') = Len(processFetches) + 1

\* a column of the configuration is enabled and has a selected comorbidity
MappingReady ==
    \E f \in 1..Len(columnMetadata) :
        \E c \in 1..Len(columnMetadata[f].columnMappings) :
            /\ columnMetadata[f].columnMappings[c].isEnabled
            /\ columnMetadata[f].columnMappings[c].selectedComorbidities # <<>>

\* C25: a processing job is submitted only from a state in which
\* currentStep is 5: a code is selected, comorbidities are loaded, a file
\* is uploaded, and a column mapping is enabled with a selected comorbidity.
C25_SubmitOnlyAtStep5 ==
    [][Submits
        => /\ currentStep = 5
           /\ selectedCode # ""
           /\ comorbidities # <<>>
           /\ uploadedFiles # <<>>
           /\ MappingReady]_vars

\* C26: once every outstanding comorbidity response has arrived, the list
\* held belongs to the selected code: each comorbidity in it was fetched
\* for that code, and the list is empty when no code is selected.
C26_ListBelongsToSelectedCode ==
    comorbidityFetches = <<>>
        => /\ \A k \in 1..Len(comorbidities) :
                comorbidities[k].code = selectedCode
           /\ selectedCode = "" => comorbidities = <<>>

\* the step C27 gives for the four inputs
ClaimedStep ==
    IF selectedCode = "" THEN 1
    ELSE IF comorbidities = <<>> THEN 2
    ELSE IF uploadedFiles = <<>> THEN 3
    ELSE IF ~MappingReady THEN 4
    ELSE 5

\* C27: in every state currentStep is in 1..5 and is the step the four
\* inputs determine (1 without a code; 2 with a code and an empty list;
\* 3 with no file; 4 with files and no mapping both enabled and with a
\* selected comorbidity; 5 otherwise), and a step that replaces the
\* uploaded files leaves the column metadata empty and currentStep at
\* most 4, where it stays while the metadata is empty.
C27_StepIsDerived ==
    [][/\ currentStep \in 1..5 /\ currentStep = ClaimedStep
       /\ currentStep' \in 1..5 /\ currentStep' = ClaimedStep'
       /\ uploadedFiles' # uploadedFiles => columnMetadata' = <<>>
       /\ columnMetadata' = <<>> => currentStep' <= 4]_vars

\* a.xlsx was configured and submitted at step 5; the user has since
\* replaced it with b.xlsx, which cleared the metadata: step 4
C27_Witness ==
    /\ \E i \in 1..Len(processFetches) : processFetches[i].file = "a.xlsx"
    /\ uploadedFiles = <<"b.xlsx">>
    /\ columnMetadata = <<>>
    /\ currentStep = 4

---------------------------------------------------------------------------
(* pages/api/[...slug].ts: the upload proxies. A handler parses the form   *)
(* (the parser writes each file to a temporary file), forwards the first   *)
(* file of the field 'file' to the backend, and answers.                   *)

\* handleGenericFileUpload parses the backend's body before it looks at
\* the status and passes a status that is not ok on; the others throw on a
\* status that is not ok and parse the body after
UploadHandlers ==
    {"generic", "analyzeStructure", "processEnhanced", "analyzeColumns",
     "processFormData"}

\* the files in the field 'file' of a form
MaxFiles == 2

UploadRequests ==
    [handler : UploadHandlers, method : {"GET", "POST"}, files : 0..MaxFiles]

\* the backend's answers: a status (0: fetch rejects) and whether the body
\* is JSON
BackendReplies ==
    {[status |-> 0, json |-> FALSE]}
    \cup [status : {200, 201, 400, 500}, json : BOOLEAN]

\* file.filepath: the temporary file of files.file[0]
FirstFile == 1

UploadInit ==
    /\ uploadReq \in UploadRequests
    /\ uploadPc = "received"
    /\ tmpFiles = {}
    /\ uploadReply = NoReply
    /\ uploadRes = 0

\* res.status(status).json(...) ends the handler
uploadResponds(status) ==
    /\ uploadRes' = status
    /\ uploadPc' = "done"

\* from the method check to the fetch: 405, form.parse (it rejects, or it
\* has written the files), 400 without a file, readFileSync (it throws, or
\* the file is forwarded)
parseForm(parsed, readable) ==
    /\ uploadPc = "received"
    /\ IF uploadReq.method # "POST"
       THEN uploadResponds(405) /\ UNCHANGED tmpFiles
       ELSE IF ~parsed
       THEN /\ \E written \in SUBSET (1..uploadReq.files) : tmpFiles' = written
            /\ uploadResponds(500)
       ELSE /\ tmpFiles' = 1..uploadReq.files
            /\ IF uploadReq.files = 0 THEN uploadResponds(400)
               ELSE IF ~readable THEN uploadResponds(500)
               ELSE uploadPc' = "forwarded" /\ UNCHANGED uploadRes
    /\ UNCHANGED <<uploadReq, uploadReply, notUpload>>

\* the backend answers, or fetch rejects
backendReplies(reply) ==
    /\ uploadPc = "forwarded"
    /\ uploadReply' = reply
    /\ uploadPc' = "replied"
    /\ UNCHANGED <<uploadReq, tmpFiles, uploadRes, notUpload>>

IsOk(reply) == reply.status \in 200..299

\* the handler after its await: the error it answers, or none (0)
uploadError(handler, reply) ==
    IF handler = "generic"
    THEN IF reply.status = 0 \/ ~reply.json THEN 500
         ELSE IF ~IsOk(reply) THEN reply.status
         ELSE 0
    ELSE IF reply.status = 0 \/ ~IsOk(reply) THEN 500
         ELSE IF ~reply.json THEN 500
         ELSE 0

handleReply ==
    /\ uploadPc = "replied"
    /\ IF uploadError(uploadReq.handler, uploadReply) # 0
       THEN uploadResponds(uploadError(uploadReq.handler, uploadReply))
       ELSE uploadPc' = "unlinking" /\ UNCHANGED uploadRes
    /\ UNCHANGED <<uploadReq, tmpFiles, uploadReply, notUpload>>

\* the handler that goes on without deleting the file
unlinkFile_keeps(deleted) ==
    /\ uploadPc = "unlinking"
    /\ IF deleted
       THEN uploadPc' = "unlinked" /\ UNCHANGED uploadRes
       ELSE uploadResponds(500)
    /\ UNCHANGED <<uploadReq, tmpFiles, uploadReply, notUpload>>

\* fs.unlinkSync(file.filepath): the file is deleted, or it throws and the
\* catch block answers
unlinkFile(deleted) ==
    /\ uploadPc = "unlinking"
    /\ IF deleted
       THEN /\ tmpFiles' = tmpFiles \ {FirstFile}
            /\ uploadPc' = "unlinked"
            /\ UNCHANGED uploadRes
       ELSE uploadResponds(500) /\ UNCHANGED tmpFiles
    /\ UNCHANGED <<uploadReq, uploadReply, notUpload>>

\* res.status(200).json(data)
sendSuccess ==
    /\ uploadPc = "unlinked"
    /\ uploadResponds(200)
    /\ UNCHANGED <<uploadReq, tmpFiles, uploadReply, notUpload>>

UploadStart ==
    UploadInit /\ RouteIdle /\ HomeInit /\ DashboardIdle /\ HookIdle

UploadNext ==
    \/ \E parsed \in BOOLEAN, readable \in BOOLEAN : parseForm(parsed, readable)
    \/ \E reply \in BackendReplies : backendReplies(reply)
    \/ handleReply
    \/ \E deleted \in BOOLEAN : unlinkFile(deleted)
    \/ sendSuccess

UploadSpec == UploadStart /\ [][UploadNext]_vars

\* the file has been forwarded; the backend's answer is in
Forwarded == uploadPc = "forwarded" \/ uploadReply # NoReply
Answered == uploadReply # NoReply

\* the backend answered 2xx with a body that parses
Succeeded == uploadReply.status \in 200..299 /\ uploadReply.json

\* C28: in every upload proxy the temporary file is gone when a 200 has
\* been sent; a forwarded file is deleted only on the success path (a 2xx
\* answer with a body that parses, before a 200 or no response yet); and
\* when the backend answers non-2xx, the call fails or the body does not
\* parse, the handler ends with an error status and the file in place.
C28_TempFileDeletedOnlyOnSuccess ==
    /\ uploadRes = 200 => FirstFile \notin tmpFiles /\ Succeeded
    /\ (Forwarded /\ FirstFile \notin tmpFiles)
            => Succeeded /\ uploadRes \in {0, 200}
    /\ (uploadPc = "done" /\ Answered /\ ~Succeeded)
            => uploadRes >= 400 /\ FirstFile \in tmpFiles

\* the generic handler has answered 200 for a backend 201: the first of
\* the two files is deleted
C28_Witness ==
    /\ uploadReq = [handler |-> "generic", method |-> "POST", files |-> 2]
    /\ uploadReply = [status |-> 201, json |-> TRUE]
    /\ uploadRes = 200
    /\ tmpFiles = {2}

---------------------------------------------------------------------------
(* The JobAnalytics page: fetchDashboardData on mount, handleDeleteJob. *)

\* the entries of recent_jobs in an answer of the backend
MaxRecent == 2

\* an entry of recent_jobs; two entries may carry the same job_id
RecentJobs == [job_id : JobIds, status : Terminal]

\* the dashboards GET /api/dashboard-stats answers with
Dashboards ==
    UNION {{[loaded |-> TRUE, overall |-> "stats", recent_jobs |-> list] :
                list \in [1..n -> RecentJobs]} : n \in 0..MaxRecent}

\* the page has mounted: its effect has called fetchDashboardData
DashboardInit ==
    /\ dashboardData = NoDashboard
    /\ dashboardLoading = TRUE
    /\ dashboardError = "null"
    /\ dialog = NoDialog
    /\ statsFetches = 1
    /\ deleteFetches = <<>>

\* window.confirm blocks the page: nothing of it runs while it is open
Blocked == dialog.answer = "open"

\* fetchDashboardData after its await
statsResponse(ok, answer) ==
    /\ ~Blocked
    /\ statsFetches > 0
    /\ statsFetches' = statsFetches - 1
    /\ IF ok
       THEN dashboardData' = answer /\ UNCHANGED dashboardError
       ELSE /\ dashboardError' = "Failed to fetch dashboard data"
            /\ UNCHANGED dashboardData
    /\ dashboardLoading' = FALSE
    /\ UNCHANGED <<dialog, deleteFetches, notDashboard>>

\* handleDeleteJob up to window.confirm, from the delete button of a job
\* that is listed
askDelete(id) ==
    /\ ~Blocked
    /\ \E k \in 1..Len(dashboardData.recent_jobs) :
            dashboardData.recent_jobs[k].job_id = id
    /\ dialog' = [job |-> id, answer |-> "open"]
    /\ UNCHANGED <<dashboardData, dashboardLoading, dashboardError,
                   statsFetches, deleteFetches, notDashboard>>

\* the user answers: declined, the handler returns; confirmed, it sends
\* DELETE /api/jobs/<jobId>
answerDelete(yes) ==
    /\ Blocked
    /\ dialog' = [dialog EXCEPT !.answer = IF yes THEN "yes" ELSE "no"]
    /\ IF yes
       THEN /\ Len(deleteFetches) < MaxInFlight
            /\ deleteFetches' =
                    Append(deleteFetches, [job |-> dialog.job, answer |-> "none"])
       ELSE UNCHANGED deleteFetches
    /\ UNCHANGED <<dashboardData, dashboardLoading, dashboardError,
                   statsFetches, notDashboard>>

\* the backend answers a DELETE: ok, a status that is not ok, or the
\* request fails
DeleteAnswers == {"ok", "notOk", "failed"}
backendDeletes(i, answer) ==
    /\ i \in 1..Len(deleteFetches)
    /\ deleteFetches[i].answer = "none"
    /\ deleteFetches' = [deleteFetches EXCEPT ![i].answer = answer]
    /\ UNCHANGED <<dashboardData, dashboardLoading, dashboardError, dialog,
                   statsFetches, notDashboard>>

\* a filter that drops the first entry of the job only
withoutJob_first(list, id) ==
    IF \E k \in 1..Len(list) : list[k].job_id = id
    THEN Remove(list, CHOOSE k \in 1..Len(list) :
                        /\ list[k].job_id = id
                        /\ \A h \in 1..(k - 1) : list[h].job_id # id)
    ELSE list

\* prevData.recent_jobs.filter(job => job.job_id !== jobId)
withoutJob(list, id) == SelectSeq(list, LAMBDA job : job.job_id # id)

\* handleDeleteJob after its await: the functional update of the
\* dashboard, or the alert
deleteResponse(i) ==
    /\ ~Blocked
    /\ i \in 1..Len(deleteFetches)
    /\ deleteFetches[i].answer # "none"
    /\ deleteFetches' = Remove(deleteFetches, i)
    /\ dashboardData' =
            IF deleteFetches[i].answer # "ok" THEN dashboardData
            ELSE IF ~dashboardData.loaded THEN NoDashboard
            ELSE [dashboardData EXCEPT
                    !.recent_jobs = withoutJob(@, deleteFetches[i].job)]
    /\ UNCHANGED <<dashboardLoading, dashboardError, dialog, statsFetches,
                   notDashboard>>

DashboardStart ==
    DashboardInit /\ RouteIdle /\ HomeInit /\ UploadIdle /\ HookIdle

DashboardNext ==
    \/ \E answer \in Dashboards : statsResponse(TRUE, answer)
    \/ statsResponse(FALSE, NoDashboard)
    \/ \E id \in JobIds : askDelete(id)
    \/ \E yes \in BOOLEAN : answerDelete(yes)
    \/ \E i \in 1..MaxInFlight, answer \in DeleteAnswers : backendDeletes(i, answer)
    \/ \E i \in 1..MaxInFlight : deleteResponse(i)

DashboardSpec == DashboardStart /\ [][DashboardNext]_vars

\* the entries of a list that are not of the job, in their order
RECURSIVE OthersOf(_, _)
OthersOf(list, id) ==
    IF list = <<>> THEN <<>>
    ELSE IF Head(list).job_id = id THEN OthersOf(Tail(list), id)
    ELSE <<Head(list)>> \o OthersOf(Tail(list), id)

\* this step delivers the answer to delete request i
Delivers(i) ==
    /\ i \in 1..Len(deleteFetches)
    /\ deleteFetches[i].answer # "none"
    /\ deleteFetches' = Remove(deleteFetches, i)

\* C29: the dashboard loaded changes only in a step that delivers an ok
\* answer to the DELETE of a job, and that step removes exactly the entries
\* of that job_id from recent_jobs, leaving the overall statistics and the
\* other entries as they were; a declined confirmation sends no request and
\* changes nothing; an answer that is not ok, or a failed request, leaves
\* the dashboard unchanged.
C29_DeleteRemovesOnlyThatJob ==
    [][/\ (dashboardData.loaded /\ dashboardData' # dashboardData)
            => \E i \in 1..Len(deleteFetches) :
                    /\ Delivers(i)
                    /\ deleteFetches[i].answer = "ok"
                    /\ dashboardData' =
                        [loaded |-> TRUE,
                         overall |-> dashboardData.overall,
                         recent_jobs |->
                            OthersOf(dashboardData.recent_jobs,
                                     deleteFetches[i].job)]
       /\ (Blocked /\ dialog'.answer = "no")
            => deleteFetches' = deleteFetches /\ dashboardData' = dashboardData
       /\ \A i \in 1..Len(deleteFetches) :
            (Delivers(i) /\ deleteFetches[i].answer = "ok")
                => dashboardData'.recent_jobs =
                        OthersOf(dashboardData.recent_jobs, deleteFetches[i].job)
       /\ \A i \in 1..Len(deleteFetches) :
            (Delivers(i) /\ deleteFetches[i].answer # "ok")
                => dashboardData' = dashboardData]_vars

\* the delete of job 1 was confirmed and has been answered: the entries of
\* job 1 are gone and the entry of job 2 is left
C29_Witness ==
    /\ dialog = [job |-> 1, answer |-> "yes"]
    /\ deleteFetches = <<>>
    /\ dashboardData.loaded
    /\ dashboardData.overall = "stats"
    /\ dashboardData.recent_jobs = <<[job_id |-> 2, status |-> "completed"]>>

---------------------------------------------------------------------------
(* hooks/useApi.ts: a component that uses the hook. A request is known by *)
(* its place in requests; data and error hold the place of the request    *)
(* they came from, 0 for null.                                            *)

\* the effect runs of one component
MaxRequests == 3

\* the effect body: isCancelled = false, setLoading(true), setError(null),
\* apiRequest(url)
NewRequest == [isCancelled |-> FALSE, completed |-> "no", applied |-> FALSE]

\* the cleanup of the effect that ran last: isCancelled = true
cleanup(list) ==
    IF list = <<>> THEN list
    ELSE [list EXCEPT ![Len(list)].isCancelled = TRUE]

\* the component has mounted and its first effect has run
HookInit ==
    /\ data = 0
    /\ loading = TRUE
    /\ error = 0
    /\ mounted = TRUE
    /\ requests = <<NewRequest>>

\* a render with changed dependencies: the cleanup, then the effect
dependenciesChange ==
    /\ mounted
    /\ Len(requests) < MaxRequests
    /\ requests' = Append(cleanup(requests), NewRequest)
    /\ loading' = TRUE
    /\ error' = 0
    /\ UNCHANGED <<data, mounted, notHook>>

unmount ==
    /\ mounted
    /\ mounted' = FALSE
    /\ requests' = cleanup(requests)
    /\ UNCHANGED <<data, loading, error, notHook>>

\* refetch: () => setLoading(true)
refetch ==
    /\ mounted
    /\ loading' = TRUE
    /\ UNCHANGED <<data, error, mounted, requests, notHook>>

\* fetchData after its await, without the isCancelled checks
requestCompletes_unguarded(i, ok) ==
    /\ i \in 1..Len(requests)
    /\ requests[i].completed = "no"
    /\ requests' =
            [requests EXCEPT
                ![i].completed = IF ok THEN "resolved" ELSE "rejected",
                ![i].applied = TRUE]
    /\ data' = IF ok THEN i ELSE data
    /\ error' = IF ok THEN error ELSE i
    /\ loading' = FALSE
    /\ UNCHANGED <<mounted, notHook>>

\* fetchData after its await: apiRequest resolves (setData) or rejects
\* (setError), then setLoading(false), each only if not isCancelled
requestCompletes(i, ok) ==
    /\ i \in 1..Len(requests)
    /\ requests[i].completed = "no"
    /\ requests' =
            [requests EXCEPT
                ![i].completed = IF ok THEN "resolved" ELSE "rejected",
                ![i].applied = ~requests[i].isCancelled]
    /\ data' = IF ~requests[i].isCancelled /\ ok THEN i ELSE data
    /\ error' = IF ~requests[i].isCancelled /\ ~ok THEN i ELSE error
    /\ loading' = IF ~requests[i].isCancelled THEN FALSE ELSE loading
    /\ UNCHANGED <<mounted, notHook>>

HookStart == HookInit /\ RouteIdle /\ HomeInit /\ UploadIdle /\ DashboardIdle

HookNext ==
    \/ dependenciesChange
    \/ unmount
    \/ refetch
    \/ \E i \in 1..MaxRequests, ok \in BOOLEAN : requestCompletes(i, ok)

HookSpec == HookStart /\ [][HookNext]_vars

\* the latest of the requests that satisfy a condition, 0 if none does
Latest(chosen(_)) ==
    LET those == {i \in 1..Len(requests) : chosen(requests[i])}
    IN  IF those = {} THEN 0 ELSE CHOOSE i \in those : \A h \in those : h <= i

\* this step completes a request whose effect has been cleaned up
CompletesStale ==
    \E i \in 1..Len(requests) :
        /\ requests[i].completed = "no"
        /\ requests'[i].completed # "no"
        /\ requests[i].isCancelled

\* the completion of a request started under earlier dependencies, or of
\* any request after the unmount, changes none of data, error, loading
StaleIsDiscarded ==
    CompletesStale => data' = data /\ error' = error /\ loading' = loading

\* C30: the completion of a request started under earlier dependencies, or
\* after the unmount, changes none of data, error and loading, so data,
\* when set, is the result of the most recently started request that has
\* completed.
C30_DataFromLatestCompleted ==
    [][/\ StaleIsDiscarded
       /\ data' # 0 => data' = Latest(LAMBDA r : r.completed # "no")']_vars

\* C30, amended: the completion of a stale request changes none of data,
\* error and loading, and data is always the result of the most recently
\* started request that resolved while its effect was current (null if
\* there is none): a later request that is pending, was discarded or has
\* failed leaves the older data in place.
C30_Amended ==
    [][/\ StaleIsDiscarded
       /\ data = Latest(LAMBDA r : r.completed = "resolved" /\ r.applied)
       /\ data' = Latest(LAMBDA r : r.completed = "resolved" /\ r.applied)']_vars

\* the first request gave the data; the second resolved after the
\* dependencies had changed again and was discarded; the third is pending
C30_Witness ==
    /\ Len(requests) = 3
    /\ requests[1].completed = "resolved" /\ requests[1].applied
    /\ requests[2].completed = "resolved" /\ ~requests[2].applied
    /\ requests[3].completed = "no"
    /\ data = 1
    /\ loading

===========================================================================
